---- MODULE Spec2Model ----
(***************************************************************************)
(* Verification model of the chatbot backend's context-assembly and        *)
(* AI-provider-dispatch subsystem:                                         *)
(*   - ChatService (chat/services.py): estimate_token_count,               *)
(*     truncate_text, process_json_data_to_csv, build_context_prompt       *)
(*   - AIProviderFactory (llms/ai_providers/factory.py)                    *)
(*   - the provider adapters (core/ai_providers, ai_providers)             *)
(* Texts are TLA+ strings; Python's slicing and truthiness rules are       *)
(* modelled by the Py* operators.                                          *)
(***************************************************************************)
EXTENDS Integers, Sequences, FiniteSets, TLC

VARIABLES
  \* ---- truncate_text harness ----
  text,               \* argument text of truncate_text
  max_tokens,         \* argument max_tokens
  preserve_ending,    \* argument preserve_ending
  truncated,          \* truncate_text(text, max_tokens, preserve_ending)
  retruncated,        \* truncate_text(truncated, max_tokens, preserve_ending)
  tpc,                \* "start" | "once" | "twice"
  \* ---- provider registry (AIProviderFactory) ----
  settings,           \* django.conf.settings, the keys the factory reads
  instance,           \* AIProviderFactory._instance: 0 is None, else object id
  providers,          \* AIProviderFactory._providers (dict, insertion order)
  created,            \* number of factory objects allocated so far
  initCount,          \* number of runs of _initialize_providers so far
  resets,             \* number of test-harness resets so far
  configured,         \* history: the backends the settings enabled when
                      \* _initialize_providers last ran
  ret,                \* the last operation: its arguments, result and calls
  threads,            \* the threads that use the factory: where each one is
                      \* in its call and what it has read (<<>>: none)
  \* ---- prompt assembly (ChatService.build_context_prompt) ----
  heap,               \* the Python objects of the call: dict and list cells
  heap0,              \* history: the heap when the call was made
  argUserMessage,     \* argument user_message
  argSessionConfig,   \* argument session_config (a reference)
  argHistory,         \* argument conversation_history (a reference or None)
  argFileData,        \* argument file_data
  argSystemPrompt,    \* argument system_prompt as the caller passes it
  argJsonData,        \* argument data of process_json_data_to_csv
  result,             \* what the call returned or raised
  ppc,                \* "idle" | "start" | "built" | "normalized"
  \* ---- message views (chat/views/messages.py) ----
  dbSessions,         \* table Session: row i is the session with id i
  dbMessages,         \* table Message, in timestamp order
  response,           \* the last request and the response it got
  \* ---- file views (chat/views/files.py) ----
  dbFiles,            \* table FileUpload, in uploaded_at order
  inflight            \* the upload and delete requests: where each one is

textVars == <<text, max_tokens, preserve_ending, truncated, retruncated, tpc>>
regVars == <<settings, instance, providers, created, initCount, resets, configured, ret,
             threads>>

promptVars == <<heap, heap0, argUserMessage, argSessionConfig, argHistory,
               argFileData, argSystemPrompt, argJsonData, result, ppc>>

fileVars == <<dbFiles, inflight>>
viewVars == <<dbSessions, dbMessages, response, fileVars>>

vars == <<textVars, regVars, promptVars, viewVars>>

(***************************************************************************)
(* Bounds of the model                                                     *)
(***************************************************************************)
MaxTextLen == 8      \* longest text handed to truncate_text
MaxNegTokens == 2    \* max_tokens ranges over -MaxNegTokens..MaxTokens
MaxTokens == 3
MaxResets == 1       \* test-harness resets of the registry in one run

(***************************************************************************)
(* Python primitives                                                       *)
(***************************************************************************)
Max(a, b) == IF a >= b THEN a ELSE b
Min(a, b) == IF a <= b THEN a ELSE b

\* Python's normalisation of a slice index against a sequence of length n
PyIndex(i, n) == IF i < 0 THEN Max(n + i, 0) ELSE Min(i, n)

\* s[:stop]
PySliceTo(s, stop) == SubSeq(s, 1, PyIndex(stop, Len(s)))

\* s[start:]
PySliceFrom(s, start) == SubSeq(s, PyIndex(start, Len(s)) + 1, Len(s))

\* sub in s
Contains(s, sub) ==
  \E i \in 1..(Len(s) - Len(sub) + 1) : SubSeq(s, i, i + Len(sub) - 1) = sub

\* s.startswith(pre)
StartsWith(s, pre) == Len(pre) <= Len(s) /\ SubSeq(s, 1, Len(pre)) = pre

\* s * n
RECURSIVE Rep(_, _)
Rep(s, n) ==
  IF n <= 0 THEN ""
  ELSE LET half == Rep(s, n \div 2)
       IN  half \o half \o (IF n % 2 = 1 THEN s ELSE "")

(***************************************************************************)
(* ChatService: token estimation and truncation                            *)
(***************************************************************************)
MAX_TOTAL_TOKENS == 6000
MAX_USER_MESSAGE_TOKENS == 3000
MAX_JSON_DATA_TOKENS == 2000
MAX_HISTORY_TOKENS == 1500

\* math.ceil(len(text) / 4)
estimate_token_count(t) == (Len(t) + 3) \div 4

\* truncate_text without its early return: every text is cut
truncate_text_always(t, n, pe) ==
  LET max_chars == n * 4
  IN  IF pe THEN "..." \o PySliceFrom(t, -(max_chars - 3))
            ELSE PySliceTo(t, max_chars - 3) \o "..."

\* ChatService.truncate_text
truncate_text(t, n, pe) ==
  LET estimated_tokens == estimate_token_count(t)
      max_chars == n * 4
  IN  IF estimated_tokens <= n THEN t
      ELSE IF pe THEN "..." \o PySliceFrom(t, -(max_chars - 3))
                 ELSE PySliceTo(t, max_chars - 3) \o "..."

(***************************************************************************)
(* Python values.  None is the reserved string PyNone; an optional number  *)
(* is a sequence, <<>> for None and <<n>> for n; a dict with string keys   *)
(* is a function on its keys; a dict whose insertion order is observable   *)
(* is a sequence of [name, value] entries.                                 *)
(***************************************************************************)
PyNone == "<None>"
Unset == "<unset>"          \* an attribute the settings object does not have

\* bool(v) of a str-or-None value
Truthy(v) == v # PyNone /\ v # ""

\* a or b
PyOr(a, b) == IF Truthy(a) THEN a ELSE b

\* str(v) of a str-or-None value
PyStr(v) == IF v = PyNone THEN "None" ELSE v

\* d.get(key, default)
Get(d, key, default) == IF key \in DOMAIN d THEN d[key] ELSE default

\* key in d, d[key], d[key] = value, list(d.keys()) of an ordered dict
DictHas(d, k) == \E i \in 1..Len(d) : d[i].name = k
DictGet(d, k) == d[CHOOSE i \in 1..Len(d) : d[i].name = k].value
DictSet(d, k, v) ==
  IF DictHas(d, k)
  THEN [i \in 1..Len(d) |-> IF d[i].name = k THEN [name |-> k, value |-> v] ELSE d[i]]
  ELSE Append(d, [name |-> k, value |-> v])
DictKeys(d) == [i \in 1..Len(d) |-> d[i].name]
KeySet(d) == {d[i].name : i \in 1..Len(d)}

\* repr of a list of str: ['claude', 'openai']
RECURSIVE ReprItems(_)
ReprItems(l) ==
  IF Len(l) = 0 THEN ""
  ELSE IF Len(l) = 1 THEN "'" \o l[1] \o "'"
  ELSE "'" \o l[1] \o "', " \o ReprItems(Tail(l))
ReprList(l) == "[" \o ReprItems(l) \o "]"

(***************************************************************************)
(* JSON values and the Python heap.  A scalar is [t, v] with v the text of *)
(* str(value); a dict or a list is a heap cell, and a value that is a      *)
(* container is a reference [t |-> "ref", a |-> address].  A dict cell's   *)
(* items are [name, value] entries in insertion order, a list cell's       *)
(* items are values.  Address 0 is a temporary empty dict (the default of  *)
(* session_config.get(key, {})).                                           *)
(***************************************************************************)
Str(x) == [t |-> "str", v |-> x]
Num(n) == [t |-> "num", v |-> ToString(n), n |-> n]
JNull == [t |-> "null", v |-> "None"]
JBool(b) == [t |-> "bool", v |-> IF b THEN "True" ELSE "False"]
Ref(a) == [t |-> "ref", a |-> a]
DictCell(items) == [t |-> "dict", items |-> items]
ListCell(items) == [t |-> "list", items |-> items]
Entry(k, v) == [name |-> k, value |-> v]

Cell(h, a) == IF a = 0 THEN DictCell(<<>>) ELSE h[a]

\* isinstance(value, dict), isinstance(value, list), isinstance(value, str)
IsDict(h, v) == v.t = "ref" /\ Cell(h, v.a).t = "dict"
IsList(h, v) == v.t = "ref" /\ Cell(h, v.a).t = "list"
IsStr(v) == v.t = "str"

\* bool(value)
IsTruthy(h, v) ==
  IF v.t = "ref" THEN Len(Cell(h, v.a).items) > 0
  ELSE IF v.t = "str" THEN v.v # ""
  ELSE IF v.t = "num" THEN v.v # "0"
  ELSE IF v.t = "bool" THEN v.v = "True"
  ELSE FALSE

\* d.get(key, default) of the dict at address a
ObjGet(h, a, key, default) ==
  LET items == Cell(h, a).items
      hit == {i \in 1..Len(items) : items[i].name = key}
  IN  IF hit = {} THEN default ELSE items[CHOOSE i \in hit : TRUE].value

\* list(d.keys())
ObjKeys(h, a) == [i \in 1..Len(Cell(h, a).items) |-> Cell(h, a).items[i].name]

\* ", ".join(l), ",".join(l)
RECURSIVE JoinRange(_, _, _, _)
JoinRange(sep, l, lo, hi) ==
  IF lo > hi THEN ""
  ELSE IF lo = hi THEN l[lo]
  ELSE LET mid == (lo + hi) \div 2
       IN  JoinRange(sep, l, lo, mid) \o sep \o JoinRange(sep, l, mid + 1, hi)
Join(sep, l) == JoinRange(sep, l, 1, Len(l))

\* repr(value) and str(value): a str is quoted inside a container only
RECURSIVE PyRepr(_, _)
PyRepr(h, v) ==
  IF v.t = "str" THEN "'" \o v.v \o "'"
  ELSE IF v.t # "ref" THEN v.v
  ELSE LET c == Cell(h, v.a)
       IN  IF c.t = "dict"
           THEN "{" \o Join(", ", [i \in 1..Len(c.items) |->
                         "'" \o c.items[i].name \o "': " \o PyRepr(h, c.items[i].value)])
                    \o "}"
           ELSE "[" \o Join(", ", [i \in 1..Len(c.items) |-> PyRepr(h, c.items[i])])
                    \o "]"

PyStrVal(h, v) == IF v.t = "str" THEN v.v ELSE PyRepr(h, v)

\* json.dumps(value, indent=2) when pretty, json.dumps(value) otherwise;
\* level is the nesting depth of the value
RECURSIVE Dumps(_, _, _, _)
Dumps(h, v, pretty, level) ==
  IF v.t = "str" THEN "\"" \o v.v \o "\""
  ELSE IF v.t = "num" THEN v.v
  ELSE IF v.t = "null" THEN "null"
  ELSE IF v.t = "bool" THEN (IF v.v = "True" THEN "true" ELSE "false")
  ELSE LET c == Cell(h, v.a)
           open == IF c.t = "dict" THEN "{" ELSE "["
           close == IF c.t = "dict" THEN "}" ELSE "]"
           inner == Rep("  ", level + 1)
           outer == Rep("  ", level)
           parts == [i \in 1..Len(c.items) |->
                      IF c.t = "dict"
                      THEN "\"" \o c.items[i].name \o "\": "
                             \o Dumps(h, c.items[i].value, pretty, level + 1)
                      ELSE Dumps(h, c.items[i], pretty, level + 1)]
       IN  IF Len(c.items) = 0 THEN open \o close
           ELSE IF pretty
           THEN open \o "\n" \o inner \o Join(",\n" \o inner, parts) \o "\n"
                  \o outer \o close
           ELSE open \o Join(", ", parts) \o close

\* the function f with domain 1..n as a tuple, every element evaluated
Tuple(f) == SubSeq(f, 1, Len(f))

\* the sum of f[lo..hi]
RECURSIVE SumRange(_, _, _)
SumRange(f, lo, hi) ==
  IF lo > hi THEN 0
  ELSE IF lo = hi THEN f[lo]
  ELSE LET mid == (lo + hi) \div 2
       IN  SumRange(f, lo, mid) + SumRange(f, mid + 1, hi)

\* the concatenation of the sequences l[lo..hi]
RECURSIVE ConcatRange(_, _, _)
ConcatRange(l, lo, hi) ==
  IF lo > hi THEN <<>>
  ELSE IF lo = hi THEN l[lo]
  ELSE LET mid == (lo + hi) \div 2
       IN  ConcatRange(l, lo, mid) \o ConcatRange(l, mid + 1, hi)

\* the values held by a cell, in order
Children(c) ==
  [i \in 1..Len(c.items) |-> IF c.t = "dict" THEN c.items[i].value ELSE c.items[i]]

\* the number of dicts and lists in the value v
RECURSIVE ObjectCount(_, _)
ObjectCount(h, v) ==
  IF v.t # "ref" THEN 0
  ELSE LET kids == Children(Cell(h, v.a))
       IN  1 + SumRange([i \in 1..Len(kids) |-> ObjectCount(h, kids[i])], 1, Len(kids))

\* the cells of a structural copy of v allocated from address base + 1 on:
\* the copies of the children in order, then the copy of v itself
RECURSIVE CopyCells(_, _, _)
CopyCells(h, v, base) ==
  IF v.t # "ref" THEN <<>>
  ELSE LET c == Cell(h, v.a)
           kids == Children(c)
           n == Len(kids)
           counts == [i \in 1..n |-> ObjectCount(h, kids[i])]
           first == [i \in 1..n |-> base + SumRange(counts, 1, i - 1)]
           copy == [i \in 1..n |-> IF kids[i].t # "ref" THEN kids[i]
                                   ELSE Ref(first[i] + counts[i])]
       IN  ConcatRange([i \in 1..n |-> CopyCells(h, kids[i], first[i])], 1, n)
             \o <<[t |-> c.t,
                   items |-> [i \in 1..n |-> IF c.t = "dict"
                                             THEN Entry(c.items[i].name, copy[i])
                                             ELSE copy[i]]]>>

\* json.loads(json.dumps(value)): a structural copy in fresh cells.  The
\* result is [h |-> the heap with the new cells, v |-> the copy].
DeepClone(h, v) ==
  [h |-> h \o CopyCells(h, v, Len(h)),
   v |-> IF v.t # "ref" THEN v ELSE Ref(Len(h) + ObjectCount(h, v))]

\* obj[key] = value on the dict at address a (key present)
ObjSet(h, a, key, value) ==
  [h EXCEPT ![a] = DictCell([i \in 1..Len(h[a].items) |->
                      IF h[a].items[i].name = key THEN Entry(key, value)
                      ELSE h[a].items[i]])]

(***************************************************************************)
(* ChatService: tabular normalisation                                      *)
(***************************************************************************)
AttributeError(what) == [type |-> "AttributeError", msg |-> what]
KeyError(what) == [type |-> "KeyError", msg |-> what]
TypeError(what) == [type |-> "TypeError", msg |-> what]

\* one cell of a CSV row: item.get(col), quoted when it is a str with a comma
CsvCell(h, item, col) ==
  LET value == ObjGet(h, item.a, col, JNull)
  IN  IF IsStr(value) /\ Contains(value.v, ",") THEN "\"" \o value.v \o "\""
      ELSE IF value.t # "null" THEN PyStrVal(h, value)
      ELSE "0"

\* the keys of the objects items[i..], in order of first appearance, after
\* the keys acc
RECURSIVE UnionKeys(_, _, _, _)
UnionKeys(h, items, i, acc) ==
  IF i > Len(items) THEN acc
  ELSE UnionKeys(h, items, i + 1,
                 IF ~IsDict(h, items[i]) THEN acc
                 ELSE acc \o SelectSeq(ObjKeys(h, items[i].a),
                                       LAMBDA k : \A j \in 1..Len(acc) : acc[j] # k))

\* a conversion whose columns are the keys of all elements
convert_array_to_csv_union(h, data_array, array_name) ==
  LET items == Cell(h, data_array.a).items
  IN  IF ~IsList(h, data_array) \/ Len(items) = 0
      THEN [status |-> "ok", some |-> FALSE, csv |-> ""]
      ELSE IF ~IsDict(h, items[1])
      THEN [status |-> "ok", some |-> FALSE, csv |-> ""]
      ELSE LET all_columns == UnionKeys(h, items, 1, <<>>)
               header == Join(",", all_columns) \o "\n"
               rows == [i \in 1..Len(items) |->
                          Join(",", [j \in 1..Len(all_columns) |->
                                       CsvCell(h, items[i], all_columns[j])]) \o "\n"]
           IN  IF Len(all_columns) > 0 /\ \E i \in 1..Len(items) : ~IsDict(h, items[i])
               THEN [status |-> "raise", some |-> FALSE,
                     csv |-> "", error |-> AttributeError("object has no attribute 'get'")]
               ELSE [status |-> "ok", some |-> TRUE, csv |-> header \o Join("", rows)]

\* ChatService.convert_array_to_csv: [status, some, csv]; some is FALSE when
\* the function returns None
convert_array_to_csv(h, data_array, array_name) ==
  LET items == Cell(h, data_array.a).items
  IN  IF ~IsList(h, data_array) \/ Len(items) = 0
      THEN [status |-> "ok", some |-> FALSE, csv |-> ""]
      ELSE IF ~IsDict(h, items[1])
      THEN [status |-> "ok", some |-> FALSE, csv |-> ""]
      ELSE LET all_columns == ObjKeys(h, items[1].a)
               header == Join(",", all_columns) \o "\n"
               rows == [i \in 1..Len(items) |->
                          Join(",", [j \in 1..Len(all_columns) |->
                                       CsvCell(h, items[i], all_columns[j])]) \o "\n"]
           IN  IF Len(all_columns) > 0 /\ \E i \in 1..Len(items) : ~IsDict(h, items[i])
               THEN [status |-> "raise", some |-> FALSE,
                     csv |-> "", error |-> AttributeError("object has no attribute 'get'")]
               ELSE [status |-> "ok", some |-> TRUE, csv |-> header \o Join("", rows)]

Placeholder(key) == "[See CSV data for " \o key \o " below]"

\* traverse(obj, path) of process_json_data_to_csv, from the i-th entry of
\* the dict at address a on: the heap and csv_data after it
RECURSIVE Traverse(_, _, _, _, _)
Traverse(h, a, path, csv_data, i) ==
  IF i > Len(h[a].items) THEN [status |-> "ok", h |-> h, csv_data |-> csv_data]
  ELSE LET key == h[a].items[i].name
           value == h[a].items[i].value
           current_path == IF path # "" THEN path \o "." \o key ELSE key
       IN  IF IsList(h, value)
           THEN LET c == convert_array_to_csv(h, value, key)
                IN  IF c.status = "raise"
                    THEN [status |-> "raise", h |-> h, csv_data |-> csv_data,
                          error |-> c.error]
                    ELSE IF c.some /\ c.csv # ""
                    THEN Traverse(ObjSet(h, a, key, Str(Placeholder(key))), a, path,
                                  DictSet(csv_data, current_path,
                                          [csv |-> c.csv,
                                           originalLength |-> Len(Cell(h, value.a).items),
                                           name |-> key]),
                                  i + 1)
                    ELSE Traverse(h, a, path, csv_data, i + 1)
           ELSE IF IsDict(h, value)
           THEN LET r == Traverse(h, value.a, current_path, csv_data, 1)
                IN  IF r.status = "raise" THEN r
                    ELSE Traverse(r.h, a, path, r.csv_data, i + 1)
           ELSE Traverse(h, a, path, csv_data, i + 1)

\* processed_data = data: no copy at all
NoClone(h, v) == [h |-> h, v |-> v]

\* processed_data = json.loads(json.dumps(data))
json_clone(h, data) == DeepClone(h, data)

\* traverse(processed_data) and the return: cl is the copy and the heap
\* that holds it
traverse_processed_data(cl) ==
  IF ~IsDict(cl.h, cl.v)
  THEN [status |-> "raise", h |-> cl.h, processed_data |-> cl.v, csv_data |-> <<>>,
        error |-> AttributeError("object has no attribute 'items'")]
  ELSE Traverse(cl.h, cl.v.a, "", <<>>, 1) @@ [processed_data |-> cl.v]

\* ChatService.process_json_data_to_csv: [status, h, processed_data,
\* csv_data], h the heap after the call, or [status, h, error]
process_json_data_to_csv(h, data) == traverse_processed_data(json_clone(h, data))

(***************************************************************************)
(* Settings read by the factory and the adapters                           *)
(***************************************************************************)
CLAUDE_MODEL == "claude-3-haiku-20240307"
CLAUDE_BOT_NAME == "Claude AI"
OPENAI_MODEL == "gpt-4o"
OPENAI_BOT_NAME == "GPT Assistant"
DUMMY_MODEL == "dummy-model"
DUMMY_BOT_NAME == "Dummy Assistant"

KeyValues == {PyNone, "", "test-key"}
FlagValues == {Unset, "False", "True"}
DefaultProviders == {PyNone, "claude"}

SettingsSpace ==
  [ANTHROPIC_API_KEY : KeyValues, OPENAI_API_KEY : KeyValues \ {PyNone},
   ENABLE_DUMMY_PROVIDER : FlagValues, AI_PROVIDER : DefaultProviders]

\* getattr(settings, "ENABLE_DUMMY_PROVIDER", False)
DummyEnabled(s) == s.ENABLE_DUMMY_PROVIDER = "True"

(***************************************************************************)
(* AIProviderFactory                                                       *)
(***************************************************************************)
AnthropicProvider(key) == [cls |-> "AnthropicProvider", api_key |-> key]
OpenAIProvider(key) == [cls |-> "OpenAIProvider", api_key |-> key]
DummyProvider == [cls |-> "DummyProvider", api_key |-> "dummy-key"]

\* _initialize_providers that skips a backend whose key is present
initialize_providers_skip(provs, s) ==
  LET p1 == IF Truthy(s.ANTHROPIC_API_KEY)
            THEN DictSet(provs, "claude", AnthropicProvider(s.ANTHROPIC_API_KEY))
            ELSE provs
  IN  IF DummyEnabled(s) THEN DictSet(p1, "dummy", DummyProvider) ELSE p1

\* AIProviderFactory._initialize_providers: the dict after the call
initialize_providers(provs, s) ==
  LET p1 == IF Truthy(s.ANTHROPIC_API_KEY)
            THEN DictSet(provs, "claude", AnthropicProvider(s.ANTHROPIC_API_KEY))
            ELSE provs
      p2 == IF Truthy(s.OPENAI_API_KEY)
            THEN DictSet(p1, "openai", OpenAIProvider(s.OPENAI_API_KEY))
            ELSE p1
  IN  IF DummyEnabled(s) THEN DictSet(p2, "dummy", DummyProvider) ELSE p2

\* a check of _instance that always finds None
instance_is_none_always(inst) == TRUE

\* cls._instance is None
instance_is_none(inst) == inst = 0

\* __new__ without the singleton check: every construction allocates and
\* initializes again
factory_new_always(inst, provs, cr, ic, s) ==
  [instance |-> cr + 1, created |-> cr + 1,
   providers |-> initialize_providers(provs, s), initCount |-> ic + 1]

\* AIProviderFactory.__new__: the class state after the call
factory_new(inst, provs, cr, ic, s) ==
  IF inst = 0
  THEN [instance |-> cr + 1, created |-> cr + 1,
        providers |-> initialize_providers(provs, s), initCount |-> ic + 1]
  ELSE [instance |-> inst, created |-> cr, providers |-> provs, initCount |-> ic]

ValueError(msg) == [type |-> "ValueError", msg |-> msg]

\* get_provider whose error message names neither the name nor the phrase
get_provider_vague(provs, s, provider_name) ==
  LET name == PyOr(provider_name, s.AI_PROVIDER)
  IN  IF ~DictHas(provs, name)
      THEN [status |-> "raise",
            value |-> ValueError("AI provider is not configured. "
                       \o "Check your API keys. Available providers: "
                       \o ReprList(DictKeys(provs)))]
      ELSE [status |-> "ok", value |-> DictGet(provs, name)]

\* AIProviderFactory.get_provider
get_provider(provs, s, provider_name) ==
  LET name == PyOr(provider_name, s.AI_PROVIDER)
  IN  IF ~DictHas(provs, name)
      THEN [status |-> "raise",
            value |-> ValueError("AI provider '" \o PyStr(name) \o "' is not available. "
                       \o "Check your API keys. Available providers: "
                       \o ReprList(DictKeys(provs)))]
      ELSE [status |-> "ok", value |-> DictGet(provs, name)]

\* AIProviderFactory.get_available_providers
get_available_providers(provs) == DictKeys(provs)

\* AIProviderFactory.is_provider_available
is_provider_available(provs, provider_name) == DictHas(provs, provider_name)

(***************************************************************************)
(* Provider adapters.  `backend` is what the external service does with    *)
(* the one request: it fails with an error, or answers with a text and     *)
(* its token counts (total is <<>> when the service reports no total);     *)
(* pick is the draw of random.choice in the dummy adapter.                 *)
(***************************************************************************)
OptionsNone == [py_none |-> TRUE]     \* options=None
EmptyDict == <<>>                     \* {}

Raise(err, calls) == [status |-> "raise", value |-> err, backend_calls |-> calls]
Return(resp, calls) == [status |-> "ok", value |-> resp, backend_calls |-> calls]

\* AnthropicProvider.generate_response: the "usage" entry of the result
AnthropicUsage(backend) ==
  [inputTokens |-> backend.input, outputTokens |-> backend.output]

\* generate_response that tests the temperature for truth: 0 is not sent
AnthropicProvider_generate_response_truthy(messages, options, backend) ==
  LET opts == IF options = OptionsNone THEN EmptyDict ELSE options
      model == PyOr(Get(opts, "model", PyNone), CLAUDE_MODEL)
      maxTokens == Get(opts, "maxTokens", <<1000>>)
      temperature == Get(opts, "temperature", <<>>)
      request_params ==
        IF temperature # <<>> /\ temperature # <<0>>
        THEN [model |-> model, max_tokens |-> maxTokens, messages |-> messages,
              temperature |-> temperature]
        ELSE [model |-> model, max_tokens |-> maxTokens, messages |-> messages]
      calls == <<[call |-> "backend", api |-> "anthropic.messages.create", params |-> request_params]>>
  IN  IF backend.fail THEN Raise(backend.error, calls)
      ELSE Return([content |-> backend.text, provider |-> "claude",
                   providerName |-> CLAUDE_BOT_NAME, model |-> model,
                   usage |-> AnthropicUsage(backend)], calls)

\* AnthropicProvider.generate_response (core/ai_providers)
AnthropicProvider_generate_response(messages, options, backend) ==
  LET opts == IF options = OptionsNone THEN EmptyDict ELSE options
      model == PyOr(Get(opts, "model", PyNone), CLAUDE_MODEL)
      maxTokens == Get(opts, "maxTokens", <<1000>>)
      temperature == Get(opts, "temperature", <<>>)
      request_params ==
        IF temperature # <<>>
        THEN [model |-> model, max_tokens |-> maxTokens, messages |-> messages,
              temperature |-> temperature]
        ELSE [model |-> model, max_tokens |-> maxTokens, messages |-> messages]
      calls == <<[call |-> "backend", api |-> "anthropic.messages.create", params |-> request_params]>>
  IN  IF backend.fail THEN Raise(backend.error, calls)
      ELSE Return([content |-> backend.text, provider |-> "claude",
                   providerName |-> CLAUDE_BOT_NAME, model |-> model,
                   usage |-> AnthropicUsage(backend)], calls)

\* OpenAIProvider.generate_response: the "usage" entry of the result
OpenAIUsage(backend) ==
  [inputTokens |-> backend.input, outputTokens |-> backend.output,
   totalTokens |-> backend.total]

\* generate_response that picks the parameter by "gpt-5" occurring anywhere
\* in the model name
OpenAIProvider_generate_response_contains(messages, options, backend) ==
  LET opts == IF options = OptionsNone THEN EmptyDict ELSE options
      model == PyOr(Get(opts, "model", PyNone), OPENAI_MODEL)
      maxTokens == <<30000>>
      temperature == Get(opts, "temperature", <<>>)
      base == [model |-> model, messages |-> messages]
      limited ==
        IF Contains(model, "gpt-5")
        THEN base @@ [max_completion_tokens |-> maxTokens,
                      reasoning_effort |-> "minimal"]
        ELSE base @@ [max_tokens |-> maxTokens]
      request_params ==
        IF temperature # <<>> THEN limited @@ [temperature |-> temperature]
        ELSE limited
      calls == <<[call |-> "backend", api |-> "openai.chat.completions.create", params |-> request_params]>>
  IN  IF backend.fail THEN Raise(backend.error, calls)
      ELSE Return([content |-> backend.text, provider |-> "openai",
                   providerName |-> OPENAI_BOT_NAME, model |-> model,
                   usage |-> OpenAIUsage(backend)], calls)

\* OpenAIProvider.generate_response (ai_providers)
OpenAIProvider_generate_response(messages, options, backend) ==
  LET opts == IF options = OptionsNone THEN EmptyDict ELSE options
      model == PyOr(Get(opts, "model", PyNone), OPENAI_MODEL)
      maxTokens == <<30000>>   \* options.get("maxTokens", 30000) is overwritten
      temperature == Get(opts, "temperature", <<>>)
      base == [model |-> model, messages |-> messages]
      limited ==
        IF StartsWith(model, "gpt-5")
        THEN base @@ [max_completion_tokens |-> maxTokens,
                      reasoning_effort |-> "minimal"]
        ELSE base @@ [max_tokens |-> maxTokens]
      request_params ==
        IF temperature # <<>> THEN limited @@ [temperature |-> temperature]
        ELSE limited
      calls == <<[call |-> "backend", api |-> "openai.chat.completions.create", params |-> request_params]>>
  IN  IF backend.fail THEN Raise(backend.error, calls)
      ELSE Return([content |-> backend.text, provider |-> "openai",
                   providerName |-> OPENAI_BOT_NAME, model |-> model,
                   usage |-> OpenAIUsage(backend)], calls)

\* OpenAIProvider.default_model (core/ai_providers)
CORE_OPENAI_MODEL == "gpt-4"

\* OpenAIProvider.generate_response (core/ai_providers)
CoreOpenAIProvider_generate_response(messages, options, backend) ==
  LET opts == IF options = OptionsNone THEN EmptyDict ELSE options
      model == Get(opts, "model", CORE_OPENAI_MODEL)
      maxTokens == Get(opts, "maxTokens", <<1000>>)
      temperature == Get(opts, "temperature", <<>>)
      request_params ==
        IF temperature # <<>>
        THEN [model |-> model, max_tokens |-> maxTokens, messages |-> messages,
              temperature |-> temperature]
        ELSE [model |-> model, max_tokens |-> maxTokens, messages |-> messages]
      calls == <<[call |-> "backend", api |-> "openai.chat.completions.create", params |-> request_params]>>
  IN  IF backend.fail THEN Raise(backend.error, calls)
      ELSE Return([content |-> backend.text, provider |-> "openai",
                   providerName |-> OPENAI_BOT_NAME, model |-> model,
                   usage |-> OpenAIUsage(backend)], calls)

UpperLetters == "ABCDEFGHIJKLMNOPQRSTUVWXYZ"
LowerLetters == "abcdefghijklmnopqrstuvwxyz"

\* the lower-case letter of each upper-case letter
LowerOf ==
  [c \in {SubSeq(UpperLetters, i, i) : i \in 1..26} |->
     LET i == CHOOSE i \in 1..26 : SubSeq(UpperLetters, i, i) = c
     IN  SubSeq(LowerLetters, i, i)]

\* str.lower()
PyLower(s) ==
  Join("", [i \in 1..Len(s) |->
              LET c == SubSeq(s, i, i)
              IN  IF c \in DOMAIN LowerOf THEN LowerOf[c] ELSE c])

IsSpace(c) == c = " " \/ c = "\n" \/ c = "\t"

\* len(s.split())
WordCount(s) ==
  Cardinality({i \in 1..Len(s) :
                 /\ ~IsSpace(SubSeq(s, i, i))
                 /\ (i = 1 \/ IsSpace(SubSeq(s, i - 1, i - 1)))})

RECURSIVE SumWords(_)
SumWords(messages) ==
  IF Len(messages) = 0 THEN 0
  ELSE WordCount(messages[1].content) + SumWords(Tail(messages))

\* DummyProvider._generate_dummy_content: the list random.choice draws from
DummyResponses(user_message) ==
  LET message_lower == PyLower(user_message)
  IN  IF Contains(message_lower, "hello") \/ Contains(message_lower, "hi")
      THEN <<"Hello! I'm a dummy AI assistant. How can I help you today?",
             "Hi there! This is a dummy response for testing purposes.",
             "Greetings! I'm simulating an AI response.">>
      ELSE IF Contains(message_lower, "how are you")
      THEN <<"I'm just a dummy AI, but I'm functioning perfectly!",
             "As a dummy provider, I'm always operational!">>
      ELSE IF Contains(user_message, "?")
      THEN <<"That's an interesting question about '" \o PySliceTo(user_message, 50)
               \o "...'. Here's a dummy answer: The solution involves multiple factors.",
             "Based on your query, here's a simulated response: Consider checking the documentation.",
             "Dummy AI response: I would recommend exploring different approaches to solve this.">>
      ELSE <<"I received your message: '" \o PySliceTo(user_message, 50)
               \o "...'. This is a dummy response for development/testing.",
             "This is a simulated AI response. In production, real AI would process this request.",
             "Dummy AI acknowledges: " \o PySliceTo(user_message, 30) \o "... Processing complete.",
             "Mock response generated successfully. Replace with real AI provider for production use.">>

\* DummyProvider.generate_response (core/ai_providers)
DummyProvider_generate_response(messages, options, backend) ==
  LET opts == IF options = OptionsNone THEN EmptyDict ELSE options
      model == PyOr(Get(opts, "model", PyNone), DUMMY_MODEL)
      user_messages == SelectSeq(messages, LAMBDA m : m.role = "user")
      last_message == IF Len(user_messages) > 0
                      THEN user_messages[Len(user_messages)].content ELSE ""
      responses == DummyResponses(last_message)
      response_content == responses[((backend.pick - 1) % Len(responses)) + 1]
      input_tokens == SumWords(messages)
      output_tokens == WordCount(response_content)
      calls == <<[call |-> "backend", api |-> "_generate_dummy_content",
                  params |-> [user_message |-> last_message]]>>
  IN  Return([content |-> response_content, provider |-> "dummy",
              providerName |-> DUMMY_BOT_NAME, model |-> model,
              usage |-> [inputTokens |-> input_tokens, outputTokens |-> output_tokens,
                         totalTokens |-> <<input_tokens + output_tokens>>]], calls)

\* provider.generate_response(messages, options), dispatched on the adapter class
Adapter_generate_response(adapter, messages, options, backend) ==
  IF adapter.cls = "AnthropicProvider"
  THEN AnthropicProvider_generate_response(messages, options, backend)
  ELSE IF adapter.cls = "OpenAIProvider"
  THEN OpenAIProvider_generate_response(messages, options, backend)
  ELSE DummyProvider_generate_response(messages, options, backend)

AdapterCall(adapter, messages, options) ==
  [call |-> "adapter", provider |-> adapter, messages |-> messages, options |-> options]

\* generate_response that falls back to the first registered provider when
\* the named one is missing, and retries a failed backend call once
factory_generate_response_fallback(provs, s, provider_name, messages, options, backend) ==
  LET opts == IF options = OptionsNone THEN EmptyDict ELSE options
      name == PyOr(provider_name, s.AI_PROVIDER)
      found == get_provider(provs, s, name)
      adapter == IF found.status = "ok" THEN found.value ELSE provs[1].value
  IN  IF found.status = "raise" /\ Len(provs) = 0
      THEN [status |-> "raise", value |-> found.value, calls |-> <<>>]
      ELSE LET r == Adapter_generate_response(adapter, messages, opts, backend)
               once == <<AdapterCall(adapter, messages, opts)>> \o r.backend_calls
           IN  [status |-> r.status, value |-> r.value,
                calls |-> IF r.status = "raise" THEN once \o r.backend_calls ELSE once]

\* AIProviderFactory.generate_response
factory_generate_response(provs, s, provider_name, messages, options, backend) ==
  LET opts == IF options = OptionsNone THEN EmptyDict ELSE options
      name == PyOr(provider_name, s.AI_PROVIDER)
      found == get_provider(provs, s, name)
  IN  IF found.status = "raise"
      THEN [status |-> "raise", value |-> found.value, calls |-> <<>>]
      ELSE LET r == Adapter_generate_response(found.value, messages, opts, backend)
           IN  [status |-> r.status, value |-> r.value,
                calls |-> <<AdapterCall(found.value, messages, opts)>> \o r.backend_calls]

(***************************************************************************)
(* FileProcessor.generate_context_prompt.  A function's outcome is its     *)
(* value or the exception it raised.  file_data is the dict the upload     *)
(* view stores (type, size, data, summary), possibly with keys missing or  *)
(* holding null.                                                           *)
(***************************************************************************)
Ok(v) == [status |-> "ok", value |-> v]
Fail(e) == [status |-> "raise", error |-> e]

\* the rest of a computation once r has been evaluated: an exception
\* propagates
Then(r, F(_)) == IF r.status = "raise" THEN r ELSE F(r.value)

\* the first exception of the outcomes rs, in evaluation order
FirstFail(rs) ==
  LET bad == {i \in 1..Len(rs) : rs[i].status = "raise"}
  IN  IF bad = {} THEN Ok(TRUE)
      ELSE rs[CHOOSE i \in bad : \A j \in bad : i <= j]

\* v[key]
Sub(h, v, key) ==
  IF IsDict(h, v)
  THEN IF \E i \in 1..Len(Cell(h, v.a).items) : Cell(h, v.a).items[i].name = key
       THEN Ok(ObjGet(h, v.a, key, JNull))
       ELSE Fail(KeyError(key))
  ELSE Fail(TypeError("object is not subscriptable with a str key"))

\* the str items of iter(v), as ", ".join(v) reads them
StrItems(h, v) ==
  IF IsStr(v) THEN Ok([i \in 1..Len(v.v) |-> SubSeq(v.v, i, i)])
  ELSE IF IsDict(h, v) THEN Ok(ObjKeys(h, v.a))
  ELSE IF IsList(h, v)
  THEN LET items == Cell(h, v.a).items
       IN  IF \A i \in 1..Len(items) : IsStr(items[i])
           THEN Ok([i \in 1..Len(items) |-> items[i].v])
           ELSE Fail(TypeError("sequence item: expected str instance"))
  ELSE Fail(TypeError("object is not iterable"))

\* str.upper()
RECURSIVE PyUpper(_)
PyUpper(s) ==
  IF Len(s) = 0 THEN ""
  ELSE LET c == SubSeq(s, 1, 1)
           lo == {i \in 1..26 : SubSeq(LowerLetters, i, i) = c}
           uc == IF lo = {} THEN c
                 ELSE LET i == CHOOSE i \in lo : TRUE IN SubSeq(UpperLetters, i, i)
       IN  uc \o PyUpper(SubSeq(s, 2, Len(s)))

\* f"{size / 1024:.2f}" of an int size >= 0: size / 1024 is exact in binary
\* floating point, and the format rounds it half to even
FormatKB(size) ==
  LET q == (size * 100) \div 1024
      r == (size * 100) % 1024
      hundredths == IF r > 512 \/ (r = 512 /\ q % 2 = 1) THEN q + 1 ELSE q
      cents == hundredths % 100
  IN  ToString(hundredths \div 100) \o "."
        \o (IF cents < 10 THEN "0" ELSE "") \o ToString(cents)

\* value[:3] of a list, as a new list: the heap with it and its reference
FirstThree(h, v) ==
  LET items == Cell(h, v.a).items
  IN  [h |-> Append(h, ListCell(SubSeq(items, 1, Min(3, Len(items))))),
       v |-> Ref(Len(h) + 1)]

\* the csv branch of generate_context_prompt
CsvFileContext(h, file_data) ==
  LET data == Sub(h, file_data, "data")
      headers == Then(data, LAMBDA d : Sub(h, d, "headers"))
      rows == Then(data, LAMBDA d : Sub(h, d, "rows"))
      total_rows == Then(data, LAMBDA d : Sub(h, d, "totalRows"))
      names == Then(headers, LAMBDA v : StrItems(h, v))
      summary == Sub(h, file_data, "summary")
      column_types == Then(summary, LAMBDA s : Sub(h, s, "columnTypes"))
      types == Then(column_types, LAMBDA c :
                 IF IsDict(h, c)
                 THEN Ok([i \in 1..Len(Cell(h, c.a).items) |->
                            Cell(h, c.a).items[i].name \o ": "
                              \o PyStrVal(h, Cell(h, c.a).items[i].value)])
                 ELSE Fail(AttributeError("object has no attribute 'items'")))
      sample == Then(rows, LAMBDA r :
                  IF ~IsTruthy(h, r) THEN Ok("")
                  ELSE IF ~IsList(h, r)
                  THEN Fail(TypeError("object is not subscriptable"))
                  ELSE LET items == Cell(h, r.a).items
                       IN  Ok("\nSample Data (first 3 rows):\n"
                              \o Join("", [i \in 1..Min(3, Len(items)) |->
                                    "Row " \o ToString(i) \o ": "
                                      \o Dumps(h, items[i], FALSE, 0) \o "\n"])))
      failed == FirstFail(<<data, headers, rows, total_rows, names, summary,
                            column_types, types, sample>>)
  IN  IF failed.status = "raise" THEN failed
      ELSE Ok("Columns (" \o ToString(Len(names.value)) \o "): "
                \o Join(", ", names.value) \o "\n"
                \o "Total Rows: " \o PyStrVal(h, total_rows.value) \o "\n"
                \o "Column Types: " \o Join(", ", types.value) \o "\n"
                \o sample.value)

\* the json branch of generate_context_prompt
JsonFileContext(h, file_data) ==
  LET summary == Sub(h, file_data, "summary")
      stype == Then(summary, LAMBDA s : Sub(h, s, "type"))
      shape == Then(stype, LAMBDA t :
                 IF t = Str("array")
                 THEN LET length == Sub(h, summary.value, "length")
                          keys == Sub(h, summary.value, "firstItemKeys")
                          names == Then(keys, LAMBDA k :
                                     IF IsTruthy(h, k) THEN StrItems(h, k)
                                     ELSE Ok(<<>>))
                          failed == FirstFail(<<length, keys, names>>)
                      IN  IF failed.status = "raise" THEN failed
                          ELSE Ok("Array Length: " \o PyStrVal(h, length.value) \o "\n"
                                    \o (IF IsTruthy(h, keys.value)
                                        THEN "Object Keys: "
                                               \o Join(", ", names.value) \o "\n"
                                        ELSE ""))
                 ELSE IF t = Str("object")
                 THEN LET names == Then(Sub(h, summary.value, "keys"),
                                        LAMBDA k : StrItems(h, k))
                      IN  IF names.status = "raise" THEN names
                          ELSE Ok("Object Keys: " \o Join(", ", names.value) \o "\n")
                 ELSE Ok(""))
      data == Sub(h, file_data, "data")
      sample_data == Then(data, LAMBDA d :
                       IF IsList(h, d)
                       THEN LET s == FirstThree(h, d) IN Ok(Dumps(s.h, s.v, TRUE, 0))
                       ELSE Ok(Dumps(h, d, TRUE, 0)))
      failed == FirstFail(<<summary, stype, shape, data, sample_data>>)
  IN  IF failed.status = "raise" THEN failed
      ELSE Ok(shape.value \o "\nData Sample:\n" \o sample_data.value \o "\n")

\* the prompt of generate_context_prompt, given the type, the size and the
\* outcome of the branch for the type
file_context_of(type, size, body) ==
  IF body.status = "raise" THEN body
  ELSE Ok("\n\nFile Data Context:\n"
            \o "File Type: " \o PyUpper(type) \o "\n"
            \o "File Size: " \o FormatKB(size) \o " KB\n"
            \o body.value
            \o "\nYou can answer questions about this data, perform analysis, filter records, calculate statistics, or help with data insights.")

\* generate_context_prompt of a truthy file_data, given the outcomes of
\* file_data['type'] and file_data['size']
file_context(h, file_data, type, size) ==
  IF type.status = "raise" THEN type
  ELSE IF ~IsStr(type.value)
  THEN Fail(AttributeError("object has no attribute 'upper'"))
  ELSE IF size.status = "raise" THEN size
  ELSE IF size.value.t # "num"
  THEN Fail(TypeError("unsupported operand type(s) for /"))
  ELSE file_context_of(type.value.v, size.value.n,
                       IF type.value.v = "csv" THEN CsvFileContext(h, file_data)
                       ELSE IF type.value.v = "json" THEN JsonFileContext(h, file_data)
                       ELSE Ok(""))

\* FileProcessor.generate_context_prompt
FileProcessor_generate_context_prompt(h, file_data) ==
  IF ~IsTruthy(h, file_data) THEN Ok("")
  ELSE file_context(h, file_data, Sub(h, file_data, "type"), Sub(h, file_data, "size"))

(***************************************************************************)
(* ChatService.build_context_prompt                                        *)
(***************************************************************************)
\* a or b of JSON values
JOr(h, a, b) == IF IsTruthy(h, a) THEN a ELSE b

\* d.get(key) of the dict referenced by d
DGet(h, d, key) == ObjGet(h, d.a, key, JNull)

\* a base_context that falls back block by block: the fields of
\* pageContext when it has any, those of pageData otherwise
base_context_block_level(h, page_context, page_data, custom_instructions) ==
  LET not_provided == Str("Not provided")
      from == IF IsTruthy(h, page_context) THEN page_context ELSE page_data
      url == JOr(h, DGet(h, from, "url"), not_provided)
      title == JOr(h, DGet(h, from, "title"), not_provided)
      content == JOr(h, DGet(h, from, "content"),
                     JOr(h, DGet(h, from, "description"),
                         JOr(h, DGet(h, from, "pageContent"), not_provided)))
      hostname == JOr(h, DGet(h, page_data, "hostname"), not_provided)
      language == JOr(h, DGet(h, page_data, "language"), not_provided)
  IN  "You are a helpful assistant embedded in a website to answer questions about the current page and help users.\n"
        \o "\nPage Information:\n"
        \o "- URL: " \o PyStrVal(h, url) \o "\n"
        \o "- Title: " \o PyStrVal(h, title) \o "\n"
        \o "- Content Summary: " \o PyStrVal(h, content) \o "\n"
        \o "- Hostname: " \o PyStrVal(h, hostname) \o "\n"
        \o "- Page Language: " \o PyStrVal(h, language) \o "\n"
        \o "\n"
        \o (IF IsTruthy(h, custom_instructions)
            THEN "Special Instructions: " \o PyStrVal(h, custom_instructions)
            ELSE "")

\* base_context: the opening line, the page information block and the
\* special instructions
base_context(h, page_context, page_data, custom_instructions) ==
  LET not_provided == Str("Not provided")
      url == JOr(h, DGet(h, page_context, "url"),
                 JOr(h, DGet(h, page_data, "url"), not_provided))
      title == JOr(h, DGet(h, page_context, "title"),
                   JOr(h, DGet(h, page_data, "title"), not_provided))
      content == JOr(h, DGet(h, page_context, "content"),
                     JOr(h, DGet(h, page_context, "description"),
                         JOr(h, DGet(h, page_data, "pageContent"), not_provided)))
      hostname == JOr(h, DGet(h, page_data, "hostname"), not_provided)
      language == JOr(h, DGet(h, page_data, "language"), not_provided)
  IN  "You are a helpful assistant embedded in a website to answer questions about the current page and help users.\n"
        \o "\nPage Information:\n"
        \o "- URL: " \o PyStrVal(h, url) \o "\n"
        \o "- Title: " \o PyStrVal(h, title) \o "\n"
        \o "- Content Summary: " \o PyStrVal(h, content) \o "\n"
        \o "- Hostname: " \o PyStrVal(h, hostname) \o "\n"
        \o "- Page Language: " \o PyStrVal(h, language) \o "\n"
        \o "\n"
        \o (IF IsTruthy(h, custom_instructions)
            THEN "Special Instructions: " \o PyStrVal(h, custom_instructions)
            ELSE "")

\* "(truncated)" is announced when the text holds the marker
TruncatedNote(s) == IF Contains(s, "...") THEN " (truncated)" ELSE ""

\* json_data_section, given the outcome p of process_json_data_to_csv:
\* [status, h, value], h the heap after the call
json_data_section_of(json_data, p) ==
      IF p.status = "raise"
      THEN [status |-> "raise", h |-> p.h, error |-> p.error]
      ELSE IF Len(p.csv_data) > 0
      THEN LET csv_sections ==
                 Join("", [i \in 1..Len(p.csv_data) |->
                             "\n## " \o p.csv_data[i].value.name \o " ("
                               \o ToString(p.csv_data[i].value.originalLength)
                               \o " records):\n" \o p.csv_data[i].value.csv \o "\n"])
               optimized_json_string == Dumps(p.h, p.processed_data, TRUE, 0)
               truncated_json_string ==
                 truncate_text(optimized_json_string, MAX_JSON_DATA_TOKENS, FALSE)
           IN  [status |-> "ok", h |-> p.h,
                value |-> "Available Data" \o TruncatedNote(truncated_json_string)
                  \o ":\n\n=== CSV DATA ===\n" \o csv_sections
                  \o "\n\n=== ADDITIONAL CONTEXT ===\n" \o truncated_json_string
                  \o "\n\nYou have access to structured data in CSV format above, plus additional context. You can analyze this data, compare records, calculate totals, identify trends, and provide insights based on the metrics."]
      ELSE LET json_string == Dumps(p.h, json_data, TRUE, 0)
               truncated_json_string ==
                 truncate_text(json_string, MAX_JSON_DATA_TOKENS, FALSE)
           IN  [status |-> "ok", h |-> p.h,
                value |-> "Available JSON Data" \o TruncatedNote(truncated_json_string)
                  \o ":\n" \o truncated_json_string
                  \o "\n\nYou have access to structured data. You can analyze this data and answer questions about it."]

\* json_data_section of a truthy json_data
json_data_section(h, json_data) ==
  json_data_section_of(json_data, process_json_data_to_csv(h, json_data))

\* msg_text = f"{msg['role']}: {msg['content']}\n"
msg_text(h, msg) ==
  LET role == Sub(h, msg, "role")
      content == Sub(h, msg, "content")
  IN  IF role.status = "raise" THEN role
      ELSE IF content.status = "raise" THEN content
      ELSE Ok(PyStrVal(h, role.value) \o ": " \o PyStrVal(h, content.value) \o "\n")

\* the test that ends the loop, negated, with the bound itself excluded
within_history_budget_strict(current_tokens, msg_tokens) ==
  current_tokens + msg_tokens < MAX_HISTORY_TOKENS

\* the test that ends the loop, negated: the message still fits
within_history_budget(current_tokens, msg_tokens) ==
  ~(current_tokens + msg_tokens > MAX_HISTORY_TOKENS)

\* the loop over reversed(conversation_history), given the outcome of
\* msg_text for every message, the index of the last message for which it
\* raises (0 if none), msg_tokens of every message after that one, and
\* current_tokens at the moment the loop visits each message.  The loop
\* visits the messages from the last one backwards; it adds message j iff
\* every message k >= j passed the budget test.  It raises when it reaches
\* a message without role or content.
history_loop_from(lines, last_bad, msg_tokens, current_tokens) ==
  LET n == Len(lines)
      added == {j \in (last_bad + 1)..n :
                  \A k \in j..n : within_history_budget(current_tokens[k], msg_tokens[k])}
      start == IF added = {} THEN n + 1 ELSE CHOOSE j \in added : \A k \in added : j <= k
  IN  IF last_bad > 0 /\ start = last_bad + 1 THEN lines[last_bad]
      ELSE Ok(JoinRange("", Tuple([i \in 1..n |-> IF i >= start THEN lines[i].value
                                                  ELSE ""]),
                        start, n))

\* current_tokens that never grows: every message is tested on its own
history_tokens_before_none(msg_tokens) ==
  Tuple([k \in 1..Len(msg_tokens) |-> 0])

\* current_tokens when the loop visits message k: the tokens of the
\* messages after it
history_tokens_before(msg_tokens) ==
  Tuple([k \in 1..Len(msg_tokens) |-> SumRange(msg_tokens, k + 1, Len(msg_tokens))])

\* msg_tokens of every message the loop can visit
history_msg_tokens(lines, last_bad) ==
  Tuple([i \in 1..Len(lines) |-> IF i > last_bad
                                 THEN estimate_token_count(lines[i].value)
                                 ELSE 0])

\* the last message for which msg_text raises, 0 if there is none
history_last_bad(lines) ==
  LET bad == {i \in 1..Len(lines) : lines[i].status = "raise"}
  IN  IF bad = {} THEN 0 ELSE CHOOSE i \in bad : \A j \in bad : j <= i

history_loop_lines(lines, last_bad, msg_tokens) ==
  history_loop_from(lines, last_bad, msg_tokens, history_tokens_before(msg_tokens))

history_loop_bad(lines, last_bad) ==
  history_loop_lines(lines, last_bad, history_msg_tokens(lines, last_bad))

history_loop_of(lines) == history_loop_bad(lines, history_last_bad(lines))

\* the loop over reversed(conversation_history)
history_loop(h, msgs) ==
  history_loop_of(Tuple([i \in 1..Len(msgs) |-> msg_text(h, msgs[i])]))

\* history_section
history_section(h, conversation_history) ==
  IF ~IsTruthy(h, conversation_history) THEN Ok("")
  ELSE LET history_text == history_loop(h, Cell(h, conversation_history.a).items)
       IN  IF history_text.status = "raise" THEN history_text
           ELSE IF history_text.value # ""
           THEN Ok("Previous conversation:\n" \o history_text.value)
           ELSE Ok("")

\* the end of a prompt whose question keeps the head of the user message
prompt_tail_head(user_message, has_json, has_file) ==
  LET truncated_user_message ==
        truncate_text(user_message, MAX_USER_MESSAGE_TOKENS, FALSE)
  IN  "\nCurrent user question: " \o truncated_user_message
        \o (IF truncated_user_message # user_message
            THEN "\n\n[Note: User message was truncated due to length. Original length: "
                   \o ToString(Len(user_message)) \o " characters]"
            ELSE "")
        \o "\n\nPlease provide a helpful, accurate response based on the page context"
        \o (IF has_json THEN ", the JSON data provided" ELSE "")
        \o ", conversation history"
        \o (IF has_file THEN ", and the uploaded file data" ELSE "")
        \o ".\n\n"
        \o (IF has_json
            THEN "When discussing the JSON data, be specific about metrics, campaigns, and performance indicators. You can compare campaigns, calculate totals, identify trends, and provide insights based on the data."
            ELSE "")
        \o " Keep responses concise but informative."

\* the end of the prompt: the question, the truncation note and the
\* closing instructions
prompt_tail(user_message, has_json, has_file) ==
  LET truncated_user_message ==
        truncate_text(user_message, MAX_USER_MESSAGE_TOKENS, TRUE)
  IN  "\nCurrent user question: " \o truncated_user_message
        \o (IF truncated_user_message # user_message
            THEN "\n\n[Note: User message was truncated due to length. Original length: "
                   \o ToString(Len(user_message)) \o " characters]"
            ELSE "")
        \o "\n\nPlease provide a helpful, accurate response based on the page context"
        \o (IF has_json THEN ", the JSON data provided" ELSE "")
        \o ", conversation history"
        \o (IF has_file THEN ", and the uploaded file data" ELSE "")
        \o ".\n\n"
        \o (IF has_json
            THEN "When discussing the JSON data, be specific about metrics, campaigns, and performance indicators. You can compare campaigns, calculate totals, identify trends, and provide insights based on the data."
            ELSE "")
        \o " Keep responses concise but informative."

\* "\n\n" and the section, when there is one
Section(s) == IF s # "" THEN "\n\n" \o s ELSE ""

\* the final assembly, given the sections
assemble_prompt(h, user_message, json_data, file_data, base, js, fs, hs) ==
  IF fs.status = "raise" THEN [status |-> "raise", h |-> h, error |-> fs.error]
  ELSE IF hs.status = "raise" THEN [status |-> "raise", h |-> h, error |-> hs.error]
  ELSE [status |-> "ok", h |-> h,
        value |-> base \o Section(js.value) \o Section(fs.value) \o Section(hs.value)
                   \o prompt_tail(user_message, IsTruthy(h, json_data),
                                  IsTruthy(h, file_data))]

\* the file section, the history section and the final assembly, given
\* the outcome js of the JSON section
build_after_json(user_message, conversation_history, file_data, json_data, base, js) ==
  IF js.status = "raise" THEN js
  ELSE assemble_prompt(js.h, user_message, json_data, file_data, base, js,
                       IF IsTruthy(js.h, file_data)
                       THEN FileProcessor_generate_context_prompt(js.h, file_data)
                       ELSE Ok(""),
                       history_section(js.h, conversation_history))

\* the body of build_context_prompt, given the four values it reads from
\* session_config
build_from_config(h, user_message, conversation_history, file_data, page_context, custom_instructions, json_data, page_data) ==
  IF ~IsDict(h, page_context) \/ ~IsDict(h, page_data)
  THEN [status |-> "raise", h |-> h,
        error |-> AttributeError("object has no attribute 'get'")]
  ELSE build_after_json(user_message, conversation_history, file_data, json_data,
                        base_context(h, page_context, page_data, custom_instructions),
                        IF IsTruthy(h, json_data) THEN json_data_section(h, json_data)
                        ELSE [status |-> "ok", h |-> h, value |-> ""])

\* ChatService.build_context_prompt: [status, h, value], h the heap after
\* the call; session_config references a dict
build_context_prompt(h, user_message, session_config, conversation_history, file_data) ==
  build_from_config(h, user_message, conversation_history, file_data,
                    ObjGet(h, session_config.a, "pageContext", Ref(0)),
                    ObjGet(h, session_config.a, "customInstructions", Str("")),
                    ObjGet(h, session_config.a, "jsonData", Ref(0)),
                    ObjGet(h, session_config.a, "pageData", Ref(0)))

\* an optional argument the caller leaves out
NotPassed == "<not passed>"

\* a call of build_context_prompt: the signature has no system_prompt
\* parameter, so a call that passes one does not reach the body
call_build_context_prompt(h, user_message, session_config, conversation_history, file_data, system_prompt) ==
  IF system_prompt # NotPassed
  THEN [status |-> "raise", h |-> h,
        error |-> TypeError("build_context_prompt() got an unexpected keyword argument 'system_prompt'")]
  ELSE build_context_prompt(h, user_message, session_config, conversation_history,
                            file_data)

(***************************************************************************)
(* truncate_text harness: the inputs are drawn in TextInit, the actions    *)
(* apply truncate_text once and then to its own result.                    *)
(***************************************************************************)
Alphabet == {"a", "."}

RECURSIVE Strings(_)
Strings(n) ==
  IF n = 0 THEN {""}
  ELSE LET S == Strings(n - 1)
       IN  S \cup {s \o c : s \in {t \in S : Len(t) = n - 1}, c \in Alphabet}

Texts == Strings(MaxTextLen)

\* no prompt is being assembled
\* no request was made: the tables are empty
FilesIdle ==
  /\ dbFiles = <<>>
  /\ inflight = <<>>

ViewIdle ==
  /\ dbSessions = <<>>
  /\ dbMessages = <<>>
  /\ response = [op |-> "idle"]
  /\ FilesIdle

PromptIdle ==
  /\ heap = <<>>
  /\ heap0 = <<>>
  /\ argUserMessage = ""
  /\ argSessionConfig = <<>>
  /\ argHistory = <<>>
  /\ argFileData = <<>>
  /\ argSystemPrompt = ""
  /\ argJsonData = <<>>
  /\ result = <<>>
  /\ ppc = "idle"

\* the registry is not part of the truncate_text harness
RegIdle ==
  /\ settings = <<>>
  /\ instance = 0
  /\ providers = <<>>
  /\ created = 0
  /\ initCount = 0
  /\ resets = 0
  /\ configured = {}
  /\ ret = <<>>
  /\ threads = <<>>

TextInit ==
  /\ RegIdle
  /\ PromptIdle
  /\ ViewIdle
  /\ text \in Texts
  /\ max_tokens \in (-MaxNegTokens)..MaxTokens
  /\ preserve_ending \in BOOLEAN
  /\ truncated = ""
  /\ retruncated = ""
  /\ tpc = "start"

Truncate ==
  /\ tpc = "start"
  /\ truncated' = truncate_text(text, max_tokens, preserve_ending)
  /\ tpc' = "once"
  /\ UNCHANGED <<text, max_tokens, preserve_ending, retruncated, regVars, promptVars, viewVars>>

TruncateAgain ==
  /\ tpc = "once"
  /\ retruncated' = truncate_text(truncated, max_tokens, preserve_ending)
  /\ tpc' = "twice"
  /\ UNCHANGED <<text, max_tokens, preserve_ending, truncated, regVars, promptVars, viewVars>>

TextNext == Truncate \/ TruncateAgain

SpecText == TextInit /\ [][TextNext]_vars

\* C8: truncate_text is idempotent: for every text, every max_tokens and both
\* values of preserve_ending, truncating the truncated text with the same
\* arguments gives the truncated text back.
C8_TruncateIdempotent ==
  tpc = "twice" => retruncated = truncated

\* C8 (witness): a text over the budget was cut and the result cut again.
C8_Witness ==
  /\ tpc = "twice"
  /\ estimate_token_count(text) > max_tokens
  /\ truncated # text

\* C9: truncate_text respects its budget: for every max_tokens N >= 1 the
\* estimate of the result is at most N + 1, and a text whose estimate is at
\* most N is returned unchanged.
C9_BudgetRespected ==
  (tpc # "start" /\ max_tokens >= 1) =>
     /\ estimate_token_count(truncated) <= max_tokens + 1
     /\ (estimate_token_count(text) <= max_tokens => truncated = text)

\* C9 (witness): both cases happen: a text over a budget N >= 1 was cut, and
\* (in another run) a text within its budget was handed back.
C9_Witness ==
  /\ tpc = "once"
  /\ max_tokens >= 1
  /\ estimate_token_count(text) > max_tokens
  /\ truncated # text
  /\ Len(truncated) = max_tokens * 4

(***************************************************************************)
(* The provider registry as a state machine.  The process starts           *)
(* Uninitialized (_instance is None, _providers is empty); the module's    *)
(* last line constructs the singleton.  Every action is one call; ret      *)
(* records it.  The test harness may change the settings and reset the     *)
(* class state (setUp / tearDown of the factory tests).                    *)
(***************************************************************************)
TextIdle ==
  /\ text = ""
  /\ max_tokens = 0
  /\ preserve_ending = FALSE
  /\ truncated = ""
  /\ retruncated = ""
  /\ tpc = "idle"

NameArgs == {PyNone, "", "claude", "openai", "dummy", "unknown-id"}

\* the one message the view sends: the context prompt
ViewConversation == <<[role |-> "user", content |-> "Hello there"]>>

Conversations ==
  { ViewConversation,
    <<[role |-> "user", content |-> "What is the price?"],
      [role |-> "assistant", content |-> "It is 5"],
      [role |-> "user", content |-> "Thanks a lot"]>> }

\* the options the view passes: {"model": None, "maxTokens": 1000}
ViewOptions == [model |-> PyNone, maxTokens |-> <<1000>>]

OptionsSpace ==
  { OptionsNone, ViewOptions,
    [model |-> "gpt-5-mini", maxTokens |-> <<2000>>, temperature |-> <<7>>] }

ApiError == [type |-> "Exception", msg |-> "API Error"]

BackendFails ==
  [fail |-> TRUE, error |-> ApiError, text |-> "", input |-> 0, output |-> 0,
   total |-> <<>>, pick |-> 1]
BackendAnswers ==
  [fail |-> FALSE, error |-> ApiError, text |-> "Test response", input |-> 50,
   output |-> 30, total |-> <<80>>, pick |-> 2]
BackendAnswersNoTotal ==
  [fail |-> FALSE, error |-> ApiError, text |-> "Test response", input |-> 50,
   output |-> 30, total |-> <<>>, pick |-> 3]

BackendOutcomes == {BackendFails, BackendAnswers, BackendAnswersNoTotal}

\* the backends a settings object enables: claude and openai by a non-empty
\* key, dummy by the flag
ConfiguredBackends(s) ==
  {b \in {"claude", "openai", "dummy"} :
     \/ b = "claude" /\ s.ANTHROPIC_API_KEY \notin {PyNone, ""}
     \/ b = "openai" /\ s.OPENAI_API_KEY \notin {PyNone, ""}
     \/ b = "dummy" /\ s.ENABLE_DUMMY_PROVIDER = "True"}

RegInit ==
  /\ TextIdle
  /\ PromptIdle
  /\ ViewIdle
  /\ settings \in SettingsSpace
  /\ instance = 0
  /\ providers = <<>>
  /\ created = 0
  /\ initCount = 0
  /\ resets = 0
  /\ configured = {}
  /\ ret = [op |-> "start"]
  /\ threads = <<>>

\* AIProviderFactory()
Construct ==
  LET n == factory_new(instance, providers, created, initCount, settings)
  IN  /\ instance' = n.instance
      /\ providers' = n.providers
      /\ created' = n.created
      /\ initCount' = n.initCount
      /\ configured' = IF n.initCount # initCount THEN ConfiguredBackends(settings)
                        ELSE configured
      /\ ret' = [op |-> "new", status |-> "ok", value |-> n.instance]
      /\ UNCHANGED <<settings, resets, threads, textVars, promptVars, viewVars>>

\* factory.get_provider(provider_name)
GetProvider ==
  /\ created > 0
  /\ \E provider_name \in NameArgs :
       LET r == get_provider(providers, settings, provider_name)
       IN  ret' = [op |-> "get_provider", provider_name |-> provider_name,
                   status |-> r.status, value |-> r.value]
  /\ UNCHANGED <<settings, instance, providers, created, initCount, resets, configured, threads, textVars, promptVars, viewVars>>

\* factory.generate_response(provider_name, messages, options), with the
\* arguments and the backend's behaviour drawn from the given sets
GenerateResponseOf(names, conversations, optionss, outcomes) ==
  /\ created > 0
  /\ \E provider_name \in names, messages \in conversations,
        options \in optionss, backend \in outcomes :
       LET r == factory_generate_response(providers, settings, provider_name,
                                          messages, options, backend)
       IN  ret' = [op |-> "generate_response", provider_name |-> provider_name,
                   messages |-> messages, options |-> options, backend |-> backend,
                   status |-> r.status, value |-> r.value, calls |-> r.calls]
  /\ UNCHANGED <<settings, instance, providers, created, initCount, resets, configured, threads, textVars, promptVars, viewVars>>

\* the calls of the message view: the session's provider and options
GenerateResponse ==
  GenerateResponseOf({PyNone, "openai"}, {ViewConversation},
                     {ViewOptions}, {BackendFails, BackendAnswers})

\* factory.get_available_providers()
GetAvailableProviders ==
  /\ created > 0
  /\ ret' = [op |-> "get_available_providers", status |-> "ok",
             value |-> get_available_providers(providers)]
  /\ UNCHANGED <<settings, instance, providers, created, initCount, resets, configured, threads, textVars, promptVars, viewVars>>

\* factory.is_provider_available(provider_name)
IsProviderAvailable ==
  /\ created > 0
  /\ \E provider_name \in NameArgs \ {PyNone} :
       ret' = [op |-> "is_provider_available", provider_name |-> provider_name,
               status |-> "ok",
               value |-> is_provider_available(providers, provider_name)]
  /\ UNCHANGED <<settings, instance, providers, created, initCount, resets, configured, threads, textVars, promptVars, viewVars>>

\* override_settings(...) of a test
OverrideSettings ==
  /\ \E s \in SettingsSpace :
       /\ Cardinality({k \in DOMAIN s : s[k] # settings[k]}) = 1
       /\ settings' = s
  /\ ret' = [op |-> "override_settings"]
  /\ UNCHANGED <<instance, providers, created, initCount, resets, configured, threads, textVars, promptVars, viewVars>>

\* setUp / tearDown of the factory tests: _instance = None; _providers.clear()
HarnessReset ==
  /\ resets < MaxResets
  /\ instance' = 0
  /\ providers' = <<>>
  /\ resets' = resets + 1
  /\ ret' = [op |-> "reset"]
  /\ UNCHANGED <<settings, created, initCount, configured, threads, textVars, promptVars, viewVars>>

RegNext ==
  \/ Construct
  \/ GetProvider
  \/ GenerateResponse
  \/ GetAvailableProviders
  \/ IsProviderAvailable
  \/ OverrideSettings
  \/ HarnessReset

SpecRegistry == RegInit /\ [][RegNext]_vars

\* the name a call asks for: the argument, or the configured default when the
\* argument is None or empty
Requested(provider_name) ==
  IF provider_name \in {PyNone, ""} THEN settings.AI_PROVIDER ELSE provider_name

\* C2: get_provider with a name that is not registered, given explicitly or
\* taken from the default provider setting when the argument is None, raises
\* an error whose message contains "not available" and the requested name,
\* and returns no adapter.
C2_UnregisteredRaises ==
  (ret.op = "get_provider" /\ Requested(ret.provider_name) \notin KeySet(providers)) =>
     /\ ret.status = "raise"
     /\ ret.value.type = "ValueError"
     /\ Contains(ret.value.msg, "not available")
     /\ Contains(ret.value.msg, PyStr(Requested(ret.provider_name)))

\* C2 (witness): get_provider(None) with no provider registered raised.
C2_Witness ==
  /\ ret.op = "get_provider"
  /\ ret.provider_name = PyNone
  /\ providers = <<>>
  /\ instance # 0
  /\ ret.status = "raise"

\* C5: after the registry is initialized from a clean state the registered
\* ids are exactly the backends the settings enabled at that time;
\* get_available_providers returns exactly this set and
\* is_provider_available is true exactly for its members.
C5_RegisteredIffConfigured ==
  instance # 0 =>
     /\ KeySet(providers) = configured
     /\ ret.op = "get_available_providers" =>
          /\ {ret.value[i] : i \in 1..Len(ret.value)} = configured
          /\ Len(ret.value) = Cardinality(configured)
     /\ ret.op = "is_provider_available" =>
          (ret.value <=> ret.provider_name \in configured)

\* C5 (witness): a registry initialized with the OpenAI key and the dummy flag
\* but an empty Anthropic key was listed.
C5_Witness ==
  /\ instance # 0
  /\ ret.op = "get_available_providers"
  /\ configured = {"openai", "dummy"}
  /\ ret.value = <<"openai", "dummy">>

\* C6: with no test-harness reset, initialization runs only on the first
\* construction, every construction returns the same instance, and the
\* registered providers never change after the first construction.
C6_InitOnce ==
  /\ [](resets = 0 => (initCount <= 1 /\ created <= 1))
  /\ [][ resets' = resets =>
           /\ instance # 0 =>
                /\ instance' = instance
                /\ providers' = providers
                /\ initCount' = initCount
           /\ ret'.op = "new" => ret'.value = instance' ]_vars

\* C6 (witness): a later construction under changed settings returned the
\* first instance and left the registered providers as they were.
C6_Witness ==
  /\ resets = 0
  /\ ret.op = "new"
  /\ ret.value = 1
  /\ initCount = 1
  /\ ConfiguredBackends(settings) # KeySet(providers)

(***************************************************************************)
(* Dispatch: the process after import, the singleton constructed under     *)
(* the settings of the deployment; the only operation is                   *)
(* generate_response, with every combination of arguments and backend      *)
(* behaviour.                                                              *)
(***************************************************************************)
DispatchInit ==
  /\ TextIdle
  /\ PromptIdle
  /\ ViewIdle
  /\ settings \in SettingsSpace
  /\ LET n == factory_new(0, <<>>, 0, 0, settings)
     IN  /\ instance = n.instance
         /\ providers = n.providers
         /\ created = n.created
         /\ initCount = n.initCount
  /\ resets = 0
  /\ configured = ConfiguredBackends(settings)
  /\ ret = [op |-> "start"]
  /\ threads = <<>>

Dispatch ==
  GenerateResponseOf(NameArgs \ {""}, Conversations, OptionsSpace, BackendOutcomes)

DispatchNext == Dispatch

SpecDispatch == DispatchInit /\ [][DispatchNext]_vars

\* C3: every AIResponse an adapter returns carries usage.totalTokens, equal
\* to usage.inputTokens + usage.outputTokens, also when the backend reports
\* no combined total.
C3_UsageTotals ==
  (ret.op = "generate_response" /\ ret.status = "ok") =>
     /\ "totalTokens" \in DOMAIN ret.value.usage
     /\ ret.value.usage.totalTokens
          = <<ret.value.usage.inputTokens + ret.value.usage.outputTokens>>

\* C3 (witness): the Anthropic adapter answered a call whose backend
\* reported 50 input and 30 output tokens.
C3_Witness ==
  /\ ret.op = "generate_response"
  /\ ret.status = "ok"
  /\ ret.value.provider = "claude"
  /\ ret.value.usage.inputTokens = 50
  /\ ret.value.usage.outputTokens = 30

\* C7: generate_response resolves, then delegates exactly once.  An
\* unresolved provider raises before any adapter or backend call; a resolved
\* one gets exactly one adapter call, which makes exactly one backend call,
\* with the caller's messages and options; a backend failure reaches the
\* caller as the same error, with no retry and no fallback.
C7_DelegatesOnce ==
  ret.op = "generate_response" =>
    LET name == Requested(ret.provider_name)
        opts == IF ret.options = OptionsNone THEN EmptyDict ELSE ret.options
    IN  IF name \notin KeySet(providers)
        THEN /\ ret.status = "raise"
             /\ ret.value.type = "ValueError"
             /\ ret.calls = <<>>
        ELSE /\ Len(ret.calls) = 2
             /\ ret.calls[1].call = "adapter"
             /\ ret.calls[1].provider = DictGet(providers, name)
             /\ ret.calls[1].messages = ret.messages
             /\ ret.calls[1].options = opts
             /\ ret.calls[2].call = "backend"
             /\ name # "dummy" => ret.calls[2].params.messages = ret.messages
             /\ (ret.backend.fail /\ name # "dummy") =>
                  (ret.status = "raise" /\ ret.value = ret.backend.error)
             /\ (~ret.backend.fail \/ name = "dummy") =>
                  (ret.status = "ok" /\ ret.value.provider = name)

\* C7 (witness): both cases: a backend failure came back from a resolved
\* provider after one adapter and one backend call.
C7_Witness ==
  /\ ret.op = "generate_response"
  /\ ret.provider_name = "openai"
  /\ ret.backend.fail
  /\ ret.status = "raise"
  /\ ret.value = ApiError
  /\ Len(ret.calls) = 2

(***************************************************************************)
(* Prompt assembly: the view builds the arguments (the session's config,   *)
(* the stored messages, the uploaded file) and calls build_context_prompt; *)
(* the normaliser process_json_data_to_csv is also called on its own.  The *)
(* arguments are Python objects on the heap.  Init draws them from          *)
(* families of inputs written as JSON text.                                 *)
(***************************************************************************)
HistoryLen == 50

\* JSON text: a dict or list literal holds its items directly
D(items) == [t |-> "dict", items |-> items]
L(items) == [t |-> "list", items |-> items]

\* JSON text as a value whose containers are inline: the "heap" in which
\* address lit is the container lit
RECURSIVE LitCount(_)
LitCount(lit) ==
  IF lit.t \notin {"dict", "list"} THEN 0
  ELSE LET kids == Children(lit)
       IN  1 + SumRange([i \in 1..Len(kids) |-> LitCount(kids[i])], 1, Len(kids))

\* json.loads of JSON text: the cells of its objects from address base + 1
\* on, the children in order and then the object itself
RECURSIVE LitCells(_, _)
LitCells(lit, base) ==
  IF lit.t \notin {"dict", "list"} THEN <<>>
  ELSE LET kids == Children(lit)
           n == Len(kids)
           counts == [i \in 1..n |-> LitCount(kids[i])]
           first == [i \in 1..n |-> base + SumRange(counts, 1, i - 1)]
           loaded == [i \in 1..n |-> IF counts[i] = 0 THEN kids[i]
                                     ELSE Ref(first[i] + counts[i])]
       IN  ConcatRange([i \in 1..n |-> LitCells(kids[i], first[i])], 1, n)
             \o <<[t |-> lit.t,
                   items |-> [i \in 1..n |-> IF lit.t = "dict"
                                             THEN Entry(lit.items[i].name, loaded[i])
                                             ELSE loaded[i]]]>>

\* json.loads of JSON text: the heap with the new objects, and the value
Load(h, lit) ==
  [h |-> h \o LitCells(lit, Len(h)),
   v |-> IF LitCount(lit) = 0 THEN lit ELSE Ref(Len(h) + LitCount(lit))]

\* message i of a history whose lines all estimate to T tokens: the
\* content starts with i and is padded to the length that makes the line
\* 4T characters (user) or 4T - 3 characters (assistant)
UniformMessage(i, T) ==
  LET role == IF i % 2 = 1 THEN "user" ELSE "assistant"
      len == IF i % 2 = 1 THEN 4 * T - 7 ELSE 4 * T - 15
  IN  D(<<Entry("role", Str(role)),
          Entry("content", Str(ToString(i) \o Rep("x", len - Len(ToString(i)))))>>)

UniformHistory(T, n) == L([i \in 1..n |-> UniformMessage(i, T)])

\* the per-line token estimates of the uniform histories
LineTokens == {5, 30, 31, 500, 1500, 1501}

\* a history whose lines differ in length
MixedHistory ==
  L([i \in 1..HistoryLen |->
       D(<<Entry("role", Str(IF i % 2 = 1 THEN "user" ELSE "assistant")),
           Entry("content", Str(ToString(i) \o Rep("y", 37 * (i % 5))))>>)])

\* a history whose i-th line estimates to ts[i] tokens
SizedHistory(ts) == L([i \in 1..Len(ts) |-> UniformMessage(i, ts[i])])

\* a long message between short ones: the last two lines fit the budget,
\* the long one before them does not, the first one would
GapHistory == SizedHistory(<<5, 1495, 5, 5>>)

\* a last message over the budget after a short one
BlockedHistory == SizedHistory(<<5, 1501>>)

Histories ==
  {UniformHistory(T, HistoryLen) : T \in LineTokens}
    \cup {MixedHistory, GapHistory, BlockedHistory, L(<<>>), JNull}

ShortHistories == {L(<<>>), UniformHistory(5, 3)}

cfgEmpty == D(<<>>)
cfgPage ==
  D(<<Entry("pageContext",
            D(<<Entry("url", Str("https://shop.example/p/1")),
                Entry("title", Str("")),
                Entry("description", Str("Running shoes"))>>)),
      Entry("pageData",
            D(<<Entry("title", Str("Shoes")),
                Entry("hostname", Str("shop.example")),
                Entry("language", JNull)>>)),
      Entry("customInstructions", Str("Be brief."))>>)
cfgJson ==
  D(<<Entry("jsonData",
            D(<<Entry("campaigns",
                      L(<<D(<<Entry("name", Str("Spring, Summer")),
                              Entry("clicks", Num(10))>>),
                          D(<<Entry("name", Str("Fall")),
                              Entry("clicks", JNull),
                              Entry("cost", Num(7))>>)>>)),
                Entry("meta",
                      D(<<Entry("tags", L(<<Str("x"), Str("y")>>)),
                          Entry("regions", L(<<D(<<Entry("code", Str("eu"))>>)>>)),
                          Entry("empty", L(<<>>))>>)),
                Entry("total", Num(2))>>))>>)
cfgJsonPlain ==
  D(<<Entry("jsonData",
            D(<<Entry("total", Num(2)), Entry("note", Str("wait...")),
                Entry("ok", JBool(TRUE))>>)),
      Entry("pageData", D(<<Entry("url", Str("https://shop.example/"))>>))>>)
cfgJsonBig ==
  D(<<Entry("jsonData",
            D(<<Entry("rows", L(<<D(<<Entry("a", Num(1))>>)>>)),
                Entry("blob", Str(Rep("b", 9000)))>>))>>)
cfgJsonRagged ==
  D(<<Entry("jsonData",
            D(<<Entry("rows", L(<<D(<<Entry("a", Num(1))>>), Num(5)>>))>>))>>)
cfgJsonList == D(<<Entry("jsonData", L(<<Num(1)>>))>>)
cfgJsonSparse ==
  D(<<Entry("jsonData",
            D(<<Entry("rows",
                      L(<<D(<<Entry("a", Num(1)), Entry("b", Str("x"))>>),
                          D(<<Entry("a", Num(2))>>),
                          D(<<Entry("b", JNull), Entry("c", Num(3))>>)>>))>>))>>)
cfgJsonCells ==
  D(<<Entry("jsonData",
            D(<<Entry("rows",
                      L(<<D(<<Entry("s", Str("a,b")), Entry("q", Str("say \"hi\"\nbye")),
                              Entry("n", Num(1)), Entry("t", JBool(TRUE)),
                              Entry("l", L(<<Num(1), Num(2)>>)),
                              Entry("o", D(<<Entry("k", Num(1)), Entry("m", Str("v"))>>)),
                              Entry("e", L(<<>>))>>)>>))>>))>>)
cfgJsonNested ==
  D(<<Entry("jsonData",
            D(<<Entry("grid", L(<<L(<<D(<<Entry("x", Num(1))>>)>>)>>)),
                Entry("deep",
                      D(<<Entry("er",
                                D(<<Entry("list", L(<<D(<<Entry("y", Num(2))>>)>>)),
                                    Entry("n", Num(4))>>))>>)),
                Entry("outer",
                      L(<<D(<<Entry("inner", L(<<D(<<Entry("z", Num(3))>>)>>))>>)>>))>>))>>)
cfgJsonDeepRagged ==
  D(<<Entry("jsonData",
            D(<<Entry("meta",
                      D(<<Entry("rows", L(<<D(<<Entry("a", Num(1))>>), Str("x")>>))>>))>>))>>)
cfgNullPage ==
  D(<<Entry("pageContext", JNull), Entry("customInstructions", JNull)>>)

\* the entry name: v of a dict, none when v is Unset
OptEntry(name, v) == IF v = Unset THEN <<>> ELSE <<Entry(name, Str(v))>>

\* a session config with the given page fields; a dict without fields is
\* left out of the config
cfgPageOf(cUrl, cTitle, cContent, cDescription, dUrl, dTitle, dPageContent, dHostname, dLanguage) ==
  LET pc == OptEntry("url", cUrl) \o OptEntry("title", cTitle)
              \o OptEntry("content", cContent) \o OptEntry("description", cDescription)
      pd == OptEntry("url", dUrl) \o OptEntry("title", dTitle)
              \o OptEntry("pageContent", dPageContent)
              \o OptEntry("hostname", dHostname) \o OptEntry("language", dLanguage)
  IN  D((IF pc # <<>> THEN <<Entry("pageContext", D(pc))>> ELSE <<>>)
          \o (IF pd # <<>> THEN <<Entry("pageData", D(pd))>> ELSE <<>>))

\* every combination of present and absent page fields
PageConfigs ==
  {cfgPageOf(cUrl, cTitle, cContent, cDescription, dUrl, dTitle, dPageContent, dHostname, dLanguage) :
     cUrl \in {Unset, "", "https://ctx.example/p"}, cTitle \in {Unset, "Ctx title"},
     cContent \in {Unset, "Ctx content"}, cDescription \in {Unset, "Ctx description"},
     dUrl \in {Unset, "https://data.example/p"}, dTitle \in {Unset, "Data title"},
     dPageContent \in {Unset, "Data content"}, dHostname \in {Unset, "data.example"},
     dLanguage \in {Unset, "en"}}

Configs ==
  {cfgEmpty, cfgPage, cfgJson, cfgJsonPlain, cfgJsonBig, cfgJsonRagged,
   cfgJsonList, cfgJsonSparse, cfgJsonCells, cfgJsonNested, cfgJsonDeepRagged,
   cfgNullPage}

csvFile ==
  D(<<Entry("type", Str("csv")), Entry("size", Num(1664)),
      Entry("data",
            D(<<Entry("headers", L(<<Str("sku"), Str("price")>>)),
                Entry("rows",
                      L([i \in 1..4 |->
                           D(<<Entry("sku", Str("s" \o ToString(i))),
                               Entry("price", Str(ToString(10 * i)))>>)])),
                Entry("totalRows", Num(4))>>)),
      Entry("summary",
            D(<<Entry("columnTypes",
                      D(<<Entry("sku", Str("string")),
                          Entry("price", Str("number"))>>))>>))>>)
jsonFile ==
  D(<<Entry("type", Str("json")), Entry("size", Num(128)),
      Entry("data", L([i \in 1..4 |-> D(<<Entry("id", Num(i))>>)])),
      Entry("summary",
            D(<<Entry("type", Str("array")), Entry("length", Num(4)),
                Entry("firstItemKeys", L(<<Str("id")>>))>>))>>)
brokenFile == D(<<Entry("type", Str("csv"))>>)

Files == {JNull, csvFile, jsonFile, brokenFile}

ShortQuestion == "What is the price?"
LongQuestion == Rep("why ", 3001)

\* user messages at the user-message budget: exactly 3000 estimated tokens,
\* and one character more
BoundaryQuestions == {Rep("why ", MAX_USER_MESSAGE_TOKENS), Rep("why ", MAX_USER_MESSAGE_TOKENS) \o "?"}

SystemPrompts == {NotPassed, PyNone, "", "You are a pirate."}

\* the calls of the model: histories of every kind with plain configs,
\* configs and files of every kind with short histories, and the calls
\* that pass a system prompt
Calls ==
  [history : Histories, config : {cfgEmpty, cfgPage}, file : {JNull},
   question : {ShortQuestion, LongQuestion}, system_prompt : {NotPassed}]
    \cup
  [history : ShortHistories, config : Configs, file : Files,
   question : {ShortQuestion}, system_prompt : {NotPassed}]
    \cup
  [history : {L(<<>>)}, config : {cfgEmpty, cfgPage}, file : {JNull},
   question : {ShortQuestion}, system_prompt : SystemPrompts]
    \cup
  [history : {UniformHistory(500, HistoryLen)}, config : {cfgJsonBig}, file : {JNull},
   question : {LongQuestion}, system_prompt : {NotPassed}]
    \cup
  [history : {L(<<>>)}, config : {cfgEmpty}, file : {JNull},
   question : BoundaryQuestions, system_prompt : {NotPassed}]
    \cup
  [history : {L(<<>>)}, config : PageConfigs, file : {JNull},
   question : {ShortQuestion}, system_prompt : {NotPassed}]

\* the stored messages as Python objects: one dict per message, then the
\* list of them
LoadHistory(lit) ==
  IF lit.t # "list" THEN [h |-> <<>>, v |-> lit]
  ELSE LET n == Len(lit.items)
       IN  [h |-> [a \in 1..(n + 1) |->
                     IF a <= n THEN DictCell(lit.items[a].items)
                     ELSE ListCell([i \in 1..n |-> Ref(i)])],
            v |-> Ref(n + 1)]

PromptInit ==
  /\ TextIdle
  /\ RegIdle
  /\ ViewIdle
  /\ \E c \in Calls :
       LET ch == LoadHistory(c.history)
           sc == Load(ch.h, c.config)
           fd == Load(sc.h, c.file)
       IN  /\ heap = fd.h
           /\ heap0 = fd.h
           /\ argUserMessage = c.question
           /\ argSessionConfig = sc.v
           /\ argHistory = ch.v
           /\ argFileData = fd.v
           /\ argSystemPrompt = c.system_prompt
           /\ argJsonData = ObjGet(fd.h, sc.v.a, "jsonData", JNull)
  /\ result = <<>>
  /\ ppc = "start"

\* the state after a call with outcome r
Returned(r, pc) ==
  /\ heap' = r.h
  /\ result' = [x \in DOMAIN r \ {"h"} |-> r[x]]
  /\ ppc' = pc
  /\ UNCHANGED <<heap0, argUserMessage, argSessionConfig, argHistory, argFileData,
                 argSystemPrompt, argJsonData, textVars, regVars, viewVars>>

\* the view calls ChatService.build_context_prompt
BuildContextPrompt ==
  /\ ppc = "start"
  /\ Returned(call_build_context_prompt(heap, argUserMessage, argSessionConfig,
                                        argHistory, argFileData, argSystemPrompt),
              "built")

\* a caller normalises the structured data on its own
ProcessJsonDataToCsv ==
  /\ ppc = "start"
  /\ Returned(process_json_data_to_csv(heap, argJsonData), "normalized")

PromptNext == BuildContextPrompt \/ ProcessJsonDataToCsv

SpecPrompt == PromptInit /\ [][PromptNext]_vars

\* s.endswith(suf)
EndsWith(s, suf) ==
  Len(suf) <= Len(s) /\ SubSeq(s, Len(s) - Len(suf) + 1, Len(s)) = suf

\* the formatted lines "<role>: <content>\n" of the history passed to the call
HistoryLines ==
  LET msgs == Cell(heap0, argHistory.a).items
  IN  [i \in 1..Len(msgs) |->
         ObjGet(heap0, msgs[i].a, "role", JNull).v \o ": "
           \o ObjGet(heap0, msgs[i].a, "content", JNull).v \o "\n"]

\* every line of the history estimates to the same number of tokens
UniformLines ==
  \A i, j \in 1..Len(HistoryLines) :
     estimate_token_count(HistoryLines[i]) = estimate_token_count(HistoryLines[j])

\* the end of the prompt after the history block, for the call's arguments
CallTail ==
  prompt_tail(argUserMessage,
              IsTruthy(heap0, ObjGet(heap0, argSessionConfig.a, "jsonData", Ref(0))),
              IsTruthy(heap0, argFileData))

\* the history block that holds the last k lines
LastLines(k) ==
  IF k = 0 THEN ""
  ELSE "\n\nPrevious conversation:\n"
         \o JoinRange("", HistoryLines, Len(HistoryLines) - k + 1, Len(HistoryLines))

\* C1: for a history (of HistoryLen = 50 messages, or any other length)
\* whose formatted lines all estimate to the same T tokens, the history
\* block of the prompt holds exactly the last min(length, floor(1500 / T))
\* messages in chronological order: the prompt ends with that block
\* followed by the question and the closing instructions, and there is no
\* history block at all when the count is 0.
C1_HistoryWindow ==
  (ppc = "built" /\ result.status = "ok" /\ IsList(heap0, argHistory)
     /\ Len(HistoryLines) >= 1 /\ UniformLines) =>
    LET T == estimate_token_count(HistoryLines[1])
        k == Min(Len(HistoryLines), MAX_HISTORY_TOKENS \div T)
    IN  /\ EndsWith(result.value, LastLines(k) \o CallTail)
        /\ (k = 0 => ~Contains(result.value, "Previous conversation:"))

\* C1 (witness): a prompt was built from a uniform history of HistoryLen
\* messages of which some, but not all, fit the budget.
C1_Witness ==
  /\ ppc = "built" /\ result.status = "ok" /\ IsList(heap0, argHistory)
  /\ Len(HistoryLines) = HistoryLen /\ UniformLines
  /\ LET k == MAX_HISTORY_TOKENS \div estimate_token_count(HistoryLines[1])
     IN  /\ 0 < k /\ k < HistoryLen
         /\ EndsWith(result.value, LastLines(k) \o CallTail)

\* C4: build_context_prompt accepts a system_prompt argument: a call that
\* passes one returns a prompt; a returned prompt opens with system_prompt
\* verbatim, and not with the built-in line, when system_prompt is a
\* non-empty string, and with the built-in "You are a helpful
\* assistant..." line when system_prompt is None, empty or absent; and the
\* prompt holds the user message (cut to its budget).
C4_SystemPromptSelects ==
  (ppc = "built" /\ (result.status = "ok" \/ argSystemPrompt # NotPassed)) =>
    /\ result.status = "ok"
    /\ IF argSystemPrompt \notin {NotPassed, PyNone, ""}
       THEN /\ StartsWith(result.value, argSystemPrompt)
            /\ ~StartsWith(result.value, "You are a helpful assistant")
       ELSE StartsWith(result.value, "You are a helpful assistant")
    /\ Contains(result.value,
                truncate_text(argUserMessage, MAX_USER_MESSAGE_TOKENS, TRUE))

\* C4 (witness): a call passed a non-empty system prompt and the call was
\* rejected with a TypeError before the body ran.
C4_Witness ==
  /\ ppc = "built"
  /\ argSystemPrompt = "You are a pirate."
  /\ result.status = "raise"
  /\ result.error.type = "TypeError"

\* C10: neither process_json_data_to_csv nor build_context_prompt changes
\* an object it was passed: after the call every object that existed
\* before it (the jsonData object and the arrays in it, the session
\* config, the conversation history and its messages, the file data) is
\* equal to what it was before the call.
C10_InputsUnchanged ==
  ppc \in {"built", "normalized"} =>
    /\ Len(heap) >= Len(heap0)
    /\ \A a \in 1..Len(heap0) : heap[a] = heap0[a]

\* C10 (witness): the normaliser converted the array "campaigns": the
\* rewritten copy holds the placeholder, the jsonData object passed in
\* still holds the array.
C10_Witness ==
  /\ ppc = "normalized" /\ result.status = "ok"
  /\ DictHas(result.csv_data, "campaigns")
  /\ IsDict(heap, result.processed_data)
  /\ result.processed_data.a > Len(heap0)
  /\ ObjGet(heap, result.processed_data.a, "campaigns", JNull)
       = Str(Placeholder("campaigns"))
  /\ IsList(heap, ObjGet(heap, argJsonData.a, "campaigns", JNull))

\* the number of occurrences of the one-character string c in s
CountChar(s, c) == Cardinality({i \in 1..Len(s) : SubSeq(s, i, i) = c})

\* the convertible fields of the object at address a, in traversal order:
\* a field whose value is a non-empty array whose first element is an
\* object; nested objects are searched, arrays are not
RECURSIVE ConvertibleFrom(_, _, _, _)
ConvertibleFrom(h, a, path, i) ==
  IF i > Len(h[a].items) THEN <<>>
  ELSE LET key == h[a].items[i].name
           value == h[a].items[i].value
           current_path == IF path # "" THEN path \o "." \o key ELSE key
           here == IF IsList(h, value)
                   THEN IF Len(h[value.a].items) > 0 /\ IsDict(h, h[value.a].items[1])
                        THEN <<[path |-> current_path, name |-> key, list |-> value.a]>>
                        ELSE <<>>
                   ELSE IF IsDict(h, value)
                   THEN ConvertibleFrom(h, value.a, current_path, 1)
                   ELSE <<>>
       IN  here \o ConvertibleFrom(h, a, path, i + 1)

\* the CSV text of the array at address l: the header of the first
\* element's keys, then one row per element
ExpectedCsv(h, l) ==
  LET items == h[l].items
      columns == ObjKeys(h, items[1].a)
  IN  Join(",", columns) \o "\n"
        \o Join("", [k \in 1..Len(items) |->
                       Join(",", [j \in 1..Len(columns) |->
                                    CsvCell(h, items[k], columns[j])]) \o "\n"])

\* the object at address a of heap h is the object at address a0 of heap
\* h0 with every convertible field replaced by its placeholder
RECURSIVE RewrittenAs(_, _, _, _)
RewrittenAs(h0, a0, h, a) ==
  /\ ObjKeys(h, a) = ObjKeys(h0, a0)
  /\ \A i \in 1..Len(h0[a0].items) :
       LET key == h0[a0].items[i].name
           v0 == h0[a0].items[i].value
           v == h[a].items[i].value
       IN  IF IsList(h0, v0)
           THEN IF Len(h0[v0.a].items) > 0 /\ IsDict(h0, h0[v0.a].items[1])
                THEN v = Str(Placeholder(key))
                ELSE Dumps(h, v, FALSE, 0) = Dumps(h0, v0, FALSE, 0)
           ELSE IF IsDict(h0, v0)
           THEN IsDict(h, v) /\ RewrittenAs(h0, v0.a, h, v.a)
           ELSE v = v0

\* C11: process_json_data_to_csv, called on an object, returns exactly one
\* CSV section per convertible field (a non-empty array whose first element
\* is an object) and none for any other field; the section is keyed by the
\* field's dot-path, its name is the field key, its originalLength the
\* array length, its csv the header line followed by one newline-terminated
\* row per element in order; the rewritten object holds the placeholder
\* "[See CSV data for <key> below]" in that field, and with no convertible
\* field the section map is empty and the rewritten object equals the input.
C11_OneSectionPerField ==
  (ppc = "normalized" /\ IsDict(heap0, argJsonData)) =>
    LET fields == ConvertibleFrom(heap0, argJsonData.a, "", 1)
    IN  /\ result.status = "ok"
        /\ Len(result.csv_data) = Len(fields)
        /\ KeySet(result.csv_data) = {fields[i].path : i \in 1..Len(fields)}
        /\ \A i \in 1..Len(fields) :
             LET s == DictGet(result.csv_data, fields[i].path)
                 items == heap0[fields[i].list].items
             IN  /\ s.name = fields[i].name
                 /\ s.originalLength = Len(items)
                 /\ s.csv = ExpectedCsv(heap0, fields[i].list)
                 /\ CountChar(s.csv, "\n") >= Len(items) + 1
        /\ IsDict(heap, result.processed_data)
        /\ RewrittenAs(heap0, argJsonData.a, heap, result.processed_data.a)
        /\ (fields = <<>> =>
              Dumps(heap, result.processed_data, FALSE, 0)
                = Dumps(heap0, argJsonData, FALSE, 0))

\* C11 (witness): the field "rows" holds [{"a": 1}, 5], a non-empty array
\* whose first element is an object, and the call raised instead of
\* returning a section for it.
C11_Witness ==
  /\ ppc = "normalized"
  /\ IsDict(heap0, argJsonData)
  /\ ConvertibleFrom(heap0, argJsonData.a, "", 1)
       = <<[path |-> "rows", name |-> "rows",
            list |-> ObjGet(heap0, argJsonData.a, "rows", JNull).a]>>
  /\ Len(heap0[ObjGet(heap0, argJsonData.a, "rows", JNull).a].items) = 2
  /\ result.status = "raise"
  /\ result.error.type = "AttributeError"

\* the normaliser's contract on arrays all of whose elements are objects
C11_HoldsOnObjectArrays ==
  (\A i \in 1..Len(heap0) :
     heap0[i].t = "list" /\ Len(heap0[i].items) > 0 /\ IsDict(heap0, heap0[i].items[1])
       => \A k \in 1..Len(heap0[i].items) : IsDict(heap0, heap0[i].items[k]))
    => C11_OneSectionPerField

(***************************************************************************)
(* Adapters: each adapter class of the repository called directly, as its  *)
(* tests do, with every combination of options and backend behaviour.      *)
(* Optional numbers are sequences: <<>> is None, <<n>> is n; a temperature *)
(* is given in tenths (<<7>> is 0.7).                                      *)
(***************************************************************************)
AdapterClasses ==
  {"AnthropicProvider", "OpenAIProvider", "CoreOpenAIProvider", "DummyProvider"}

\* the values of options["model"]; Unset: the key is absent
ModelArgs == {Unset, PyNone, "", "gpt-5-mini", "gpt-4-turbo", "my-gpt-5"}
\* the values of options["maxTokens"]; <<>>: the key is absent
MaxTokensArgs == {<<>>, <<2000>>}
\* the values of options["temperature"]; Unset: the key is absent
TemperatureArgs == {Unset, <<>>, <<0>>, <<7>>}

\* the dict with the given keys; an absent key is left out
OptionsDict(model, maxTokens, temperature) ==
  LET keys == (IF model # Unset THEN {"model"} ELSE {})
                \cup (IF maxTokens # <<>> THEN {"maxTokens"} ELSE {})
                \cup (IF temperature # Unset THEN {"temperature"} ELSE {})
  IN  [k \in keys |-> IF k = "model" THEN model
                      ELSE IF k = "maxTokens" THEN maxTokens
                      ELSE temperature]

AdapterOptions ==
  {OptionsNone}
    \cup {OptionsDict(m, n, t) :
            m \in ModelArgs, n \in MaxTokensArgs, t \in TemperatureArgs}

AdaptersInit ==
  /\ TextIdle
  /\ PromptIdle
  /\ ViewIdle
  /\ settings \in {s \in SettingsSpace :
                      /\ ConfiguredBackends(s) = {"claude", "openai", "dummy"}
                      /\ s.AI_PROVIDER = "claude"}
  /\ instance = 0
  /\ providers = <<>>
  /\ created = 0
  /\ initCount = 0
  /\ resets = 0
  /\ configured = {}
  /\ ret = [op |-> "start"]
  /\ threads = <<>>

\* the generate_response of the adapter class cls
generate_response_of(cls, messages, options, backend) ==
  IF cls = "AnthropicProvider"
  THEN AnthropicProvider_generate_response(messages, options, backend)
  ELSE IF cls = "OpenAIProvider"
  THEN OpenAIProvider_generate_response(messages, options, backend)
  ELSE IF cls = "CoreOpenAIProvider"
  THEN CoreOpenAIProvider_generate_response(messages, options, backend)
  ELSE DummyProvider_generate_response(messages, options, backend)

\* provider.generate_response(messages, options) on an adapter of class cls
AdapterGenerate(cls) ==
  \E options \in AdapterOptions, backend \in {BackendFails, BackendAnswers} :
    LET r == generate_response_of(cls, ViewConversation, options, backend)
    IN  /\ ret' = [op |-> "adapter", cls |-> cls, messages |-> ViewConversation,
                   options |-> options, backend |-> backend, status |-> r.status,
                   value |-> r.value, calls |-> r.backend_calls]
        /\ UNCHANGED <<settings, instance, providers, created, initCount, resets,
                       configured, threads, textVars, promptVars, viewVars>>

AnthropicGenerate == AdapterGenerate("AnthropicProvider")
OpenAIGenerate == AdapterGenerate("OpenAIProvider")
CoreOpenAIGenerate == AdapterGenerate("CoreOpenAIProvider")
DummyGenerate == AdapterGenerate("DummyProvider")

AdaptersNext ==
  \/ AnthropicGenerate
  \/ OpenAIGenerate
  \/ CoreOpenAIGenerate
  \/ DummyGenerate

SpecAdapters == AdaptersInit /\ [][AdaptersNext]_vars

\* the options dict of the last call ({} for options=None)
CallOptions == IF ret.options = OptionsNone THEN EmptyDict ELSE ret.options

\* the adapter's configured default model
DefaultModelOf(cls) ==
  IF cls = "AnthropicProvider" THEN CLAUDE_MODEL
  ELSE IF cls = "OpenAIProvider" THEN OPENAI_MODEL
  ELSE IF cls = "CoreOpenAIProvider" THEN CORE_OPENAI_MODEL
  ELSE DUMMY_MODEL

\* the model the last call asked for: options.model when present and
\* non-empty, the adapter's default otherwise
ResolvedModel ==
  IF "model" \in DOMAIN CallOptions /\ CallOptions.model \notin {PyNone, ""}
  THEN CallOptions.model
  ELSE DefaultModelOf(ret.cls)

\* the request the adapter sent to its backend
BackendParams == ret.calls[1].params

\* C12: for every adapter the model sent to the backend and reported in the
\* response is options.model when that key is present and non-empty, and
\* the adapter's configured default model otherwise (options None, key
\* absent, model None or "").
C12_ModelOverride ==
  ret.op = "adapter" =>
    /\ ret.cls # "DummyProvider" => BackendParams.model = ResolvedModel
    /\ ret.status = "ok" => ret.value.model = ResolvedModel

\* C12 (witness): the OpenAI adapter of core/ai_providers was called with
\* the options of the message view, {"model": None, "maxTokens": 1000}-like,
\* and sent None as the model.
C12_Witness ==
  /\ ret.op = "adapter"
  /\ ret.cls = "CoreOpenAIProvider"
  /\ "model" \in DOMAIN CallOptions
  /\ CallOptions.model = PyNone
  /\ ret.status = "ok"
  /\ BackendParams.model = PyNone
  /\ ret.value.model = PyNone

\* the model resolution of the adapters other than core's OpenAI adapter
C12_HoldsElsewhere == (ret.op = "adapter" /\ ret.cls = "CoreOpenAIProvider") \/ C12_ModelOverride

\* the token-limit parameters of the request: max_tokens and
\* max_completion_tokens, those that are present
TokenLimitKeys == DOMAIN BackendParams \cap {"max_tokens", "max_completion_tokens"}

\* the default cap of the adapters, the 1000 the tests expect
DefaultCap == <<1000>>

\* C13: for every adapter that sends a token limit, the token-limit
\* parameter of the backend call is the caller's options.maxTokens when it
\* is given and the default cap of 1000 when it is absent; the caller's
\* value is never replaced by a constant.
C13_MaxTokensOverride ==
  (ret.op = "adapter" /\ ret.cls # "DummyProvider") =>
    /\ TokenLimitKeys # {}
    /\ \A k \in TokenLimitKeys :
         BackendParams[k] = IF "maxTokens" \in DOMAIN CallOptions
                            THEN CallOptions.maxTokens
                            ELSE DefaultCap

\* C13 (witness): the OpenAI adapter was called with maxTokens = 2000 and
\* its request carried max_tokens = 30000.
C13_Witness ==
  /\ ret.op = "adapter"
  /\ ret.cls = "OpenAIProvider"
  /\ "maxTokens" \in DOMAIN CallOptions
  /\ CallOptions.maxTokens = <<2000>>
  /\ "max_tokens" \in DOMAIN BackendParams
  /\ BackendParams.max_tokens = <<30000>>

\* the token limit of the adapters other than ai_providers' OpenAI adapter
C13_HoldsElsewhere == (ret.op = "adapter" /\ ret.cls = "OpenAIProvider") \/ C13_MaxTokensOverride

\* the last call gave a temperature: the key is present and not None
TemperatureGiven ==
  "temperature" \in DOMAIN CallOptions /\ CallOptions.temperature # <<>>

\* C14: for the Anthropic and OpenAI adapters the backend call carries a
\* temperature parameter iff options.temperature is present and not None,
\* and then with exactly the caller's value; with options None or without a
\* temperature the call has no temperature parameter at all.
C14_TemperatureForwarded ==
  (ret.op = "adapter" /\ ret.cls # "DummyProvider") =>
    /\ "temperature" \in DOMAIN BackendParams <=> TemperatureGiven
    /\ TemperatureGiven => BackendParams.temperature = CallOptions.temperature

\* C14 (witness): the Anthropic adapter was given the temperature 0 and
\* sent it.
C14_Witness ==
  /\ ret.op = "adapter"
  /\ ret.cls = "AnthropicProvider"
  /\ TemperatureGiven
  /\ CallOptions.temperature = <<0>>
  /\ BackendParams.temperature = <<0>>

C15_CoreAdapterSendsMaxTokens ==
  (ret.op = "adapter" /\ ret.cls = "CoreOpenAIProvider") =>
    /\ TokenLimitKeys = {"max_tokens"}
    /\ "reasoning_effort" \notin DOMAIN BackendParams

\* C16: the estimated token count of the prompt build_context_prompt
\* returns does not exceed the total target of 6000 tokens, whatever the
\* user message, session config, conversation history and file data.
C16_TotalBudget ==
  (ppc = "built" /\ result.status = "ok") =>
    estimate_token_count(result.value) <= MAX_TOTAL_TOKENS

\* C16 (witness): a user message over its budget, a jsonData over its
\* budget and a history that fills its budget: each section was cut to its
\* own budget (3000, 2000 and 1500 tokens) and the prompt is longer than
\* 6000 tokens.
C16_Witness ==
  /\ ppc = "built" /\ result.status = "ok"
  /\ estimate_token_count(argUserMessage) > MAX_USER_MESSAGE_TOKENS
  /\ IsDict(heap0, argJsonData)
  /\ estimate_token_count(Dumps(heap0, argJsonData, TRUE, 0)) > MAX_JSON_DATA_TOKENS
  /\ EndsWith(result.value, LastLines(3) \o CallTail)
  /\ estimate_token_count(result.value) > MAX_TOTAL_TOKENS

\* the position of the last occurrence of sub in s, 0 when there is none
LastIndexOf(s, sub) ==
  LET at == {i \in 1..(Len(s) - Len(sub) + 1) : SubSeq(s, i, i + Len(sub) - 1) = sub}
  IN  IF at = {} THEN 0 ELSE CHOOSE i \in at : \A j \in at : j <= i

QuestionLabel == "\nCurrent user question: "
NoteStart == "[Note: User message was truncated due to length."

\* the text of the prompt after the label of the question line
AfterQuestionLabel ==
  LET at == LastIndexOf(result.value, QuestionLabel)
  IN  SubSeq(result.value, at + Len(QuestionLabel), Len(result.value))

\* the user message does not fit 3000 estimated tokens
OverUserBudget == estimate_token_count(argUserMessage) > MAX_USER_MESSAGE_TOKENS

\* the user message cut to 3000 tokens of 4 characters keeping its tail:
\* "..." and the last 4 * 3000 - 3 characters
TailKept ==
  IF OverUserBudget
  THEN "..." \o SubSeq(argUserMessage,
                       Len(argUserMessage) - (4 * MAX_USER_MESSAGE_TOKENS - 3) + 1,
                       Len(argUserMessage))
  ELSE argUserMessage

\* C17: the "Current user question" line of the prompt holds the user
\* message truncated to 3000 estimated tokens keeping its tail ("..." and
\* the last characters), and the block "[Note: User message was truncated
\* due to length. Original length: <N> characters]" is present iff the
\* message was altered by truncation (its estimate exceeds 3000 tokens),
\* with N the character length of the original message.
C17_QuestionTruncated ==
  (ppc = "built" /\ result.status = "ok") =>
    /\ LastIndexOf(result.value, QuestionLabel) > 0
    /\ estimate_token_count(TailKept) <= MAX_USER_MESSAGE_TOKENS
    /\ (TailKept # argUserMessage) <=> OverUserBudget
    /\ StartsWith(AfterQuestionLabel,
                  TailKept
                    \o (IF OverUserBudget
                        THEN "\n\n" \o NoteStart \o " Original length: "
                               \o ToString(Len(argUserMessage)) \o " characters]"
                        ELSE "")
                    \o "\n\nPlease provide a helpful, accurate response")
    /\ Contains(AfterQuestionLabel, NoteStart) <=> OverUserBudget

\* C17 (witness): a user message of 12004 characters was cut to "..." and
\* its last 11997 characters, and the note gives the length 12004.
C17_Witness ==
  /\ ppc = "built" /\ result.status = "ok"
  /\ Len(argUserMessage) = 12004
  /\ OverUserBudget
  /\ Len(TailKept) = 12000
  /\ Contains(AfterQuestionLabel, "Original length: 12004 characters]")

\* the value of the field key of the dict session_config[dict], null when
\* the dict or the field is absent
PageField(dict, key) ==
  LET d == ObjGet(heap0, argSessionConfig.a, dict, JNull)
  IN  IF IsDict(heap0, d) THEN ObjGet(heap0, d.a, key, JNull) ELSE JNull

\* the first non-empty string of the sources, "Not provided" when none is
FirstProvided(sources) ==
  LET at == {i \in 1..Len(sources) : sources[i].t = "str" /\ sources[i].v # ""}
  IN  IF at = {} THEN "Not provided"
      ELSE sources[CHOOSE i \in at : \A j \in at : i <= j].v

\* the page fields are strings or absent, as a widget sends them
PageFieldsAreStrings ==
  /\ \A dict \in {"pageContext", "pageData"} :
       LET d == ObjGet(heap0, argSessionConfig.a, dict, Ref(0))
       IN  /\ IsDict(heap0, d)
           /\ \A i \in 1..Len(Cell(heap0, d.a).items) :
                Cell(heap0, d.a).items[i].value.t \in {"str", "null"}

PageInfoHeading == "\nPage Information:\n"

\* C18: in the page-info block each field falls back on its own: URL is
\* pageContext.url, else pageData.url; Title is pageContext.title, else
\* pageData.title; Content Summary is pageContext.content, else
\* pageContext.description, else pageData.pageContent; Hostname is
\* pageData.hostname; Language is pageData.language; a field with no
\* non-empty source renders "Not provided".
C18_FieldFallback ==
  (ppc = "built" /\ result.status = "ok" /\ PageFieldsAreStrings) =>
    LET at == LastIndexOf(SubSeq(result.value, 1, 200), PageInfoHeading)
        block == SubSeq(result.value, at + Len(PageInfoHeading), Len(result.value))
    IN  /\ at > 0
        /\ StartsWith(block,
             "- URL: "
               \o FirstProvided(<<PageField("pageContext", "url"),
                                  PageField("pageData", "url")>>)
               \o "\n- Title: "
               \o FirstProvided(<<PageField("pageContext", "title"),
                                  PageField("pageData", "title")>>)
               \o "\n- Content Summary: "
               \o FirstProvided(<<PageField("pageContext", "content"),
                                  PageField("pageContext", "description"),
                                  PageField("pageData", "pageContent")>>)
               \o "\n- Hostname: "
               \o FirstProvided(<<PageField("pageData", "hostname")>>)
               \o "\n- Page Language: "
               \o FirstProvided(<<PageField("pageData", "language")>>)
               \o "\n")

\* C18 (witness): pageContext gives only a title, pageData a url, a title
\* and a page content: the block takes the title from pageContext and the
\* URL and the content summary from pageData.
C18_Witness ==
  /\ ppc = "built" /\ result.status = "ok"
  /\ PageField("pageContext", "title") = Str("Ctx title")
  /\ PageField("pageContext", "url") = JNull
  /\ PageField("pageData", "title") = Str("Data title")
  /\ PageField("pageData", "hostname") = JNull
  /\ Contains(result.value,
              "- URL: https://data.example/p\n- Title: Ctx title\n"
                \o "- Content Summary: Data content\n- Hostname: Not provided\n")

\* the value of an optional key of the session config, Unset when absent
ConfigValue(key) == ObjGet(heap0, argSessionConfig.a, key, Str(Unset))

\* every array whose first element is an object holds only objects
ArraysAreUniform ==
  \A a \in 1..Len(heap0) :
    (heap0[a].t = "list" /\ Len(heap0[a].items) > 0 /\ IsDict(heap0, heap0[a].items[1]))
      => \A k \in 1..Len(heap0[a].items) : IsDict(heap0, heap0[a].items[k])

\* each optional key of the session config is absent, null or of its
\* expected type, and the file data is null or a dict, whatever fields it
\* has
OptionalKeysMissingOrValid ==
  /\ argSystemPrompt = NotPassed
  /\ \A key \in {"pageContext", "pageData", "jsonData"} :
       \/ ConfigValue(key) \in {Str(Unset), JNull}
       \/ IsDict(heap0, ConfigValue(key))
  /\ ConfigValue("customInstructions").t \in {"str", "null"}
  /\ ArraysAreUniform
  /\ argFileData = JNull \/ IsDict(heap0, argFileData)

\* C19: build_context_prompt does not raise on malformed input: with any
\* subset of the optional keys pageContext, pageData, customInstructions
\* and jsonData absent or null, and with a fileData lacking expected
\* fields, it returns a prompt.
C19_NeverRaises ==
  (ppc = "built" /\ OptionalKeysMissingOrValid) => result.status = "ok"

\* C19 (witness): the session config holds "pageContext": null and the
\* call raised AttributeError.
C19_Witness ==
  /\ ppc = "built"
  /\ OptionalKeysMissingOrValid
  /\ ConfigValue("pageContext") = JNull
  /\ argFileData = JNull
  /\ result.status = "raise"
  /\ result.error.type = "AttributeError"

\* a fileData without "size" makes the call raise KeyError
C19_FileWitness ==
  /\ ppc = "built"
  /\ OptionalKeysMissingOrValid
  /\ IsDict(heap0, argFileData)
  /\ ObjGet(heap0, argFileData.a, "size", Str(Unset)) = Str(Unset)
  /\ result.status = "raise"
  /\ result.error.type = "KeyError"

\* with absent keys, or null customInstructions and jsonData, and without
\* file data the call returns a prompt
C19_HoldsForAbsentKeys ==
  (ppc = "built" /\ OptionalKeysMissingOrValid /\ argFileData = JNull
     /\ ConfigValue("pageContext") # JNull /\ ConfigValue("pageData") # JNull)
    => result.status = "ok"

(***************************************************************************)
(* Message views: the tables Client, Session and Message and the three     *)
(* endpoints of chat/views/messages.py.  A request carries an X-API-Key    *)
(* header; a session id is <<n>>, <<>> when the request names none; id 0   *)
(* is a UUID no session has.  The prompt build and the provider call of    *)
(* a send are one step whose outcome is drawn: a text, a ValueError or     *)
(* another exception.                                                      *)
(***************************************************************************)
MaxSessions == 1       \* sessions created in one run
MaxMessageRows == 2    \* rows of the table Message

\* table Client
ClientTable ==
  <<[id |-> "A", api_key |-> "cb_key_A", is_active |-> TRUE,
     config |-> [whitelisted_domains |->
                   <<"https://example.com", "https://app.example.com", "*.wildcard.com">>]],
    [id |-> "B", api_key |-> "cb_key_B", is_active |-> TRUE, config |-> EmptyDict],
    [id |-> "C", api_key |-> "cb_key_C", is_active |-> FALSE,
     config |-> [whitelisted_domains |-> <<"https://example.com">>]],
    [id |-> "D", api_key |-> "cb_key_D", is_active |-> TRUE,
     config |-> [whitelisted_domains |-> <<>>]]>>

\* the X-API-Key header of a request: absent, unknown, or a client's key
ApiKeys == {PyNone, "cb_unknown", "cb_key_A", "cb_key_B", "cb_key_C"}

\* APIKeyAuthentication.authenticate: request.auth (None when no key was
\* sent), or AuthenticationFailed
APIKeyAuthentication_authenticate(api_key) ==
  IF ~Truthy(api_key) THEN Ok(PyNone)
  ELSE LET found == {i \in 1..Len(ClientTable) : ClientTable[i].api_key = api_key}
       IN  IF found = {} THEN Fail("Invalid API key")
           ELSE LET client == ClientTable[CHOOSE i \in found : TRUE]
                IN  IF ~client.is_active THEN Fail("Client account is inactive")
                    ELSE Ok(client.id)

\* IsClientAuthenticated.has_permission
IsClientAuthenticated_has_permission(auth) == auth # PyNone

\* a response: the status code and the body
Response(body, status) == [status |-> status, body |-> body]

\* the checks a view runs before its handler: authentication, then
\* permissions; the handler runs when denied is FALSE
initial(api_key) ==
  LET a == APIKeyAuthentication_authenticate(api_key)
  IN  IF a.status = "raise"
      THEN [denied |-> TRUE, auth |-> PyNone,
            response |-> Response([detail |-> a.error], 403)]
      ELSE IF ~IsClientAuthenticated_has_permission(a.value)
      THEN [denied |-> TRUE, auth |-> PyNone,
            response |-> Response([detail |-> "Authentication credentials were not provided."], 403)]
      ELSE [denied |-> FALSE, auth |-> a.value, response |-> Response(<<>>, 200)]

\* a session lookup that ignores the client
get_session_by_id(sessions, session_id, client) ==
  IF session_id # <<>> /\ session_id[1] \in 1..Len(sessions) THEN session_id ELSE <<>>

\* Session.objects.get(id=session_id, client=client): <<id>>, or <<>> for
\* Session.DoesNotExist
get_session(sessions, session_id, client) ==
  IF /\ session_id # <<>>
     /\ session_id[1] \in 1..Len(sessions)
     /\ sessions[session_id[1]].client = client
  THEN session_id
  ELSE <<>>

\* session.conversation_messages.all()
conversation_messages(rows, id) == SelectSeq(rows, LAMBDA m : m.session = id)

\* Message.to_dict
to_dict(m) == [role |-> m.role, content |-> m.content]

\* ChatHistoryView.get
ChatHistoryView_get(sessions, rows, client, session_id) ==
  LET session == get_session(sessions, session_id, client)
  IN  IF session = <<>>
      THEN Response([error |-> "Session not found"], 404)
      ELSE LET msgs == conversation_messages(rows, session[1])
           IN  Response([sessionId |-> session[1],
                         messages |-> [i \in 1..Len(msgs) |-> to_dict(msgs[i])],
                         messageCount |-> Len(msgs)], 200)

\* ClearHistoryView.delete: the response and the table Message after it
ClearHistoryView_delete(sessions, rows, client, session_id) ==
  LET session == get_session(sessions, session_id, client)
  IN  IF session = <<>>
      THEN [response |-> Response([error |-> "Session not found"], 404), rows |-> rows]
      ELSE [response |-> Response([sessionId |-> session[1], status |-> "cleared",
                                   messagesCleared |->
                                     Len(conversation_messages(rows, session[1]))], 200),
            rows |-> SelectSeq(rows, LAMBDA m : m.session # session[1])]

\* the request carries no config: request.data.get("config") is None
NoConfig == [py_none |-> TRUE]

\* the status and error of the `except Exception` branch of the send view
error_response(msg) ==
  LET lower == PyLower(msg)
  IN  IF Contains(lower, "authentication") \/ Contains(lower, "api key")
      THEN Response([error |-> "API authentication failed", details |-> msg], 401)
      ELSE IF Contains(lower, "rate limit")
      THEN Response([error |-> "Rate limit exceeded", details |-> msg], 429)
      ELSE Response([error |-> "Failed to process message", details |-> msg], 500)

\* the messages of the exceptions a provider call raises
ExceptionMessages == {"API Error", "Invalid API key provided", "Rate limit exceeded"}

\* error_response of each of these messages
error_responses == [msg \in ExceptionMessages |-> error_response(msg)]

\* a send view that drops the user message when the provider call fails
ChatMessageView_post_rollback(sessions, rows, client, session_id, message, config, outcome) ==
  IF session_id = <<>> \/ ~Truthy(message)
  THEN [response |-> Response([error |-> "Missing required fields: sessionId and message"], 400),
        sessions |-> sessions, rows |-> rows]
  ELSE LET session == get_session(sessions, session_id, client)
       IN  IF session = <<>>
           THEN [response |-> Response([error |-> "Session not found. Please create a new session."], 404),
                 sessions |-> sessions, rows |-> rows]
           ELSE LET id == session[1]
                    saved == IF config # NoConfig /\ DOMAIN config # {}
                             THEN [sessions EXCEPT ![id].config = config @@ sessions[id].config]
                             ELSE sessions
                    with_user == Append(rows, [session |-> id, role |-> "user",
                                               content |-> message])
                IN  IF outcome.kind = "ValueError"
                    THEN [response |-> Response([error |-> outcome.msg, details |-> outcome.msg], 400),
                          sessions |-> saved, rows |-> rows]
                    ELSE IF outcome.kind = "Exception"
                    THEN [response |-> error_responses[outcome.msg],
                          sessions |-> saved, rows |-> rows]
                    ELSE LET with_assistant ==
                               Append(with_user, [session |-> id, role |-> "assistant",
                                                  content |-> outcome.content])
                         IN  [response |->
                                Response([response |-> outcome.content, sessionId |-> id,
                                          messageCount |->
                                            Len(conversation_messages(with_assistant, id))],
                                         200),
                              sessions |-> saved, rows |-> with_assistant]

\* ChatMessageView.post: the response and the tables after it; outcome is
\* what the prompt build and the provider call did
ChatMessageView_post(sessions, rows, client, session_id, message, config, outcome) ==
  IF session_id = <<>> \/ ~Truthy(message)
  THEN [response |-> Response([error |-> "Missing required fields: sessionId and message"], 400),
        sessions |-> sessions, rows |-> rows]
  ELSE LET session == get_session(sessions, session_id, client)
       IN  IF session = <<>>
           THEN [response |-> Response([error |-> "Session not found. Please create a new session."], 404),
                 sessions |-> sessions, rows |-> rows]
           ELSE LET id == session[1]
                    saved == IF config # NoConfig /\ DOMAIN config # {}
                             THEN [sessions EXCEPT ![id].config = config @@ sessions[id].config]
                             ELSE sessions
                    with_user == Append(rows, [session |-> id, role |-> "user",
                                               content |-> message])
                IN  IF outcome.kind = "ValueError"
                    THEN [response |-> Response([error |-> outcome.msg, details |-> outcome.msg], 400),
                          sessions |-> saved, rows |-> with_user]
                    ELSE IF outcome.kind = "Exception"
                    THEN [response |-> error_responses[outcome.msg],
                          sessions |-> saved, rows |-> with_user]
                    ELSE LET with_assistant ==
                               Append(with_user, [session |-> id, role |-> "assistant",
                                                  content |-> outcome.content])
                         IN  [response |->
                                Response([response |-> outcome.content, sessionId |-> id,
                                          messageCount |->
                                            Len(conversation_messages(with_assistant, id))],
                                         200),
                              sessions |-> saved, rows |-> with_assistant]

\* what the prompt build and the provider call of a send can do
AIOutcomes ==
  {[kind |-> "ok", content |-> "Test response"],
   [kind |-> "ValueError", msg |-> "AI provider 'claude' is not available."]}
    \cup {[kind |-> "Exception", msg |-> msg] : msg \in ExceptionMessages}

\* the session ids a request can name: a UUID no session has, and the
\* sessions that exist
SessionIdArgs == {<<i>> : i \in 0..Len(dbSessions)}

ViewsInit ==
  /\ TextIdle
  /\ RegIdle
  /\ PromptIdle
  /\ FilesIdle
  /\ dbSessions = <<>>
  /\ dbMessages = <<>>
  /\ response = [op |-> "start"]

\* Session.objects.create(client=..., config=...): a session of a client
CreateSession ==
  /\ Len(dbSessions) < MaxSessions
  /\ \E owner \in {"A", "B"} :
       /\ dbSessions' = Append(dbSessions, [client |-> owner,
                                            config |-> [aiProvider |-> "claude"]])
       /\ response' = [op |-> "create", client |-> owner]
  /\ UNCHANGED <<dbMessages, textVars, regVars, promptVars, fileVars>>

\* the request was denied before the handler ran
Denied(op, i) ==
  /\ response' = [op |-> op, client |-> PyNone, session_id |-> <<>>,
                  message |-> "", status |-> i.response.status, body |-> i.response.body]
  /\ UNCHANGED <<dbSessions, dbMessages>>

\* GET messages/history/<session_id>
History ==
  /\ \E api_key \in ApiKeys :
       LET i == initial(api_key)
       IN  IF i.denied THEN Denied("history", i)
           ELSE \E session_id \in SessionIdArgs :
                  LET r == ChatHistoryView_get(dbSessions, dbMessages, i.auth, session_id)
                  IN  /\ response' = [op |-> "history", client |-> i.auth,
                                      session_id |-> session_id, message |-> "",
                                      status |-> r.status, body |-> r.body]
                      /\ UNCHANGED <<dbSessions, dbMessages>>
  /\ UNCHANGED <<textVars, regVars, promptVars, fileVars>>

\* the send request reaches the prompt build and the provider call
ReachesProvider(client, session_id, message) ==
  /\ session_id # <<>>
  /\ Truthy(message)
  /\ get_session(dbSessions, session_id, client) # <<>>

\* the state after a send authenticated as client
Sent(client, session_id, message, config, outcome) ==
  LET r == ChatMessageView_post(dbSessions, dbMessages, client, session_id,
                                message, config, outcome)
  IN  /\ Len(r.rows) <= MaxMessageRows
      /\ response' = [op |-> "send", client |-> client,
                      session_id |-> session_id, message |-> message,
                      status |-> r.response.status, body |-> r.response.body]
      /\ dbSessions' = r.sessions
      /\ dbMessages' = r.rows

\* POST messages/send
Send ==
  /\ \E api_key \in ApiKeys :
       LET i == initial(api_key)
       IN  IF i.denied THEN Denied("send", i)
           ELSE \E session_id \in SessionIdArgs \cup {<<>>},
                   message \in {"", "Secret message"} :
                  IF ReachesProvider(i.auth, session_id, message)
                  THEN \E config \in {NoConfig, [model |-> "gpt-4o-mini"]},
                          outcome \in AIOutcomes :
                         Sent(i.auth, session_id, message, config, outcome)
                  ELSE Sent(i.auth, session_id, message, NoConfig,
                            [kind |-> "ok", content |-> "Test response"])
  /\ UNCHANGED <<textVars, regVars, promptVars, fileVars>>

\* DELETE messages/clear/<session_id>
Clear ==
  /\ \E api_key \in ApiKeys :
       LET i == initial(api_key)
       IN  IF i.denied THEN Denied("clear", i)
           ELSE \E session_id \in SessionIdArgs :
                  LET r == ClearHistoryView_delete(dbSessions, dbMessages, i.auth, session_id)
                  IN  /\ response' = [op |-> "clear", client |-> i.auth,
                                      session_id |-> session_id, message |-> "",
                                      status |-> r.response.status, body |-> r.response.body]
                      /\ dbMessages' = r.rows
                      /\ UNCHANGED dbSessions
  /\ UNCHANGED <<textVars, regVars, promptVars, fileVars>>

ViewsNext == CreateSession \/ History \/ Send \/ Clear

SpecViews == ViewsInit /\ [][ViewsNext]_vars

\* the request r, made on the tables sessions, is a history, send or clear
\* request authenticated as a client that names a session of another
\* client (a send carries a message)
CrossClient(r, sessions) ==
  /\ r.op \in {"history", "send", "clear"}
  /\ r.client # PyNone
  /\ r.session_id # <<>>
  /\ r.session_id[1] \in 1..Len(sessions)
  /\ sessions[r.session_id[1]].client # r.client
  /\ r.op = "send" => r.message # ""

C20_MissingMessageRejected ==
  [][(response'.op = "send" /\ response'.client # PyNone /\ response'.message = "") =>
       /\ response'.status = 400
       /\ UNCHANGED <<dbSessions, dbMessages>>]_vars

(***************************************************************************)
(* DomainWhitelistMiddleware (core/middleware.py).  A request is its path, *)
(* its X-API-Key, Origin and Referer headers (PyNone when absent) and the  *)
(* value of settings.DEBUG when it is handled.  The outcome says whether   *)
(* get_response was called (forwarded) and carries the status and body of  *)
(* the response.                                                           *)
(***************************************************************************)
CharsOf(s) == {SubSeq(s, i, i) : i \in 1..Len(s)}

\* the characters urlsplit accepts in a scheme
scheme_chars == CharsOf(LowerLetters) \cup CharsOf(UpperLetters) \cup CharsOf("0123456789+-.")

\* the first position at or after from of a character of chars in s, 0 when
\* there is none
FirstOf(s, chars, from) ==
  LET hits == {i \in from..Len(s) : SubSeq(s, i, i) \in chars}
  IN  IF hits = {} THEN 0 ELSE CHOOSE i \in hits : \A j \in hits : i <= j

\* urllib.parse.urlparse(url): the scheme (lower-cased) and the netloc
urlparse(url) ==
  LET colon == FirstOf(url, {":"}, 1)
      head == SubSeq(url, 1, colon - 1)
      valid == /\ colon > 1
               /\ SubSeq(head, 1, 1) \in CharsOf(LowerLetters) \cup CharsOf(UpperLetters)
               /\ CharsOf(head) \subseteq scheme_chars
      rest == IF valid THEN SubSeq(url, colon + 1, Len(url)) ELSE url
      stop == FirstOf(rest, {"/", "?", "#"}, 3)
  IN  [scheme |-> IF valid THEN PyLower(head) ELSE "",
       netloc |-> IF ~StartsWith(rest, "//") THEN ""
                  ELSE IF stop = 0 THEN SubSeq(rest, 3, Len(rest))
                  ELSE SubSeq(rest, 3, stop - 1)]

\* f"{parsed.scheme}://{parsed.netloc}"
request_domain_of(origin) ==
  LET parsed == urlparse(origin) IN parsed.scheme \o "://" \o parsed.netloc

\* Client.objects.get(api_key=api_key, is_active=True): the rows found
active_clients(api_key) ==
  {i \in 1..Len(ClientTable) : ClientTable[i].api_key = api_key /\ ClientTable[i].is_active}

\* the loop over whitelisted_domains: is_whitelisted after it
is_whitelisted(request_domain, whitelisted_domains) ==
  \E k \in 1..Len(whitelisted_domains) :
    LET allowed_domain == whitelisted_domains[k]
    IN  IF StartsWith(allowed_domain, "*.")
        THEN EndsWith(request_domain, PySliceFrom(allowed_domain, 2))
        ELSE request_domain = allowed_domain \/ StartsWith(request_domain, allowed_domain)

exempt_paths == <<"/admin/", "/health", "/static/", "/media/">>

\* self.get_response(request): the view's response
get_response == [forwarded |-> TRUE, status |-> 200, body |-> [success |-> TRUE]]

\* JsonResponse(body, status=403), returned without calling get_response
JsonResponse(body) == [forwarded |-> FALSE, status |-> 403, body |-> body]

\* DomainWhitelistMiddleware.__call__
DomainWhitelistMiddleware_call(path, api_key, origin_header, referer, debug) ==
  IF \E k \in 1..Len(exempt_paths) : StartsWith(path, exempt_paths[k])
  THEN get_response
  ELSE LET found == IF Truthy(api_key) THEN active_clients(api_key) ELSE {}
       IN  IF found = {} THEN get_response
           ELSE LET client == ClientTable[CHOOSE i \in found : TRUE]
                    origin == PyOr(origin_header, referer)
                IN  IF ~Truthy(origin)
                    THEN JsonResponse([error |-> "Origin header required",
                                       detail |-> "Requests must originate from a whitelisted domain"])
                    ELSE LET request_domain == request_domain_of(origin)
                             whitelisted_domains ==
                               IF "whitelisted_domains" \in DOMAIN client.config
                               THEN client.config.whitelisted_domains
                               ELSE <<>>
                         IN  IF /\ \/ StartsWith(request_domain, "http://localhost")
                                   \/ StartsWith(request_domain, "http://127.0.0.1")
                                /\ debug
                             THEN get_response
                             ELSE IF ~is_whitelisted(request_domain, whitelisted_domains)
                             THEN JsonResponse([error |-> "Domain not whitelisted",
                                                domain |-> request_domain,
                                                whitelisted_domains |-> whitelisted_domains])
                             ELSE get_response

\* request.path
Paths == {"/api/chat/messages/send", "/admin/", "/health"}

\* the X-API-Key header: absent, unknown, or a client's key
MwApiKeys == {PyNone, "cb_unknown", "cb_key_A", "cb_key_B", "cb_key_C", "cb_key_D"}

\* the Origin header
Origins ==
  {PyNone, "https://example.com", "https://app.example.com",
   "https://test.wildcard.com", "https://api.test.wildcard.com",
   "https://malicious.com", "http://localhost:3000", "http://127.0.0.1:8000",
   "https://example.com/some/path?query=param", "HTTPS://example.com",
   "https://example.com.evil.com", "https://evilwildcard.com",
   "http://localhost.evil.com", "example.com"}

\* the Referer header
Referers == {PyNone, "https://example.com/page", "https://malicious.com/page"}

\* a request arrives
MiddlewareInit ==
  /\ TextIdle
  /\ RegIdle
  /\ PromptIdle
  /\ FilesIdle
  /\ dbSessions = <<>>
  /\ dbMessages = <<>>
  /\ \E path \in Paths, api_key \in MwApiKeys, origin \in Origins,
        referer \in Referers, debug \in BOOLEAN :
       response = [op |-> "request", path |-> path, api_key |-> api_key,
                   origin |-> origin, referer |-> referer, debug |-> debug]

\* the middleware handles the request
MiddlewareCall ==
  /\ response.op = "request"
  /\ LET r == DomainWhitelistMiddleware_call(response.path, response.api_key,
                                             response.origin, response.referer,
                                             response.debug)
     IN  response' = [op |-> "handled", path |-> response.path,
                      api_key |-> response.api_key, origin |-> response.origin,
                      referer |-> response.referer, debug |-> response.debug,
                      forwarded |-> r.forwarded, status |-> r.status, body |-> r.body]
  /\ UNCHANGED <<dbSessions, dbMessages, textVars, regVars, promptVars, fileVars>>

MiddlewareNext == MiddlewareCall

SpecMiddleware == MiddlewareInit /\ [][MiddlewareNext]_vars

\* the request of the state was handled, is on a non-exempt path and
\* carries the API key of an active client
OfActiveClient ==
  /\ response.op = "handled"
  /\ \A k \in 1..Len(exempt_paths) : ~StartsWith(response.path, exempt_paths[k])
  /\ response.api_key # PyNone
  /\ active_clients(response.api_key) # {}

\* the Origin header or, when it is absent, the Referer header
OriginOrReferer ==
  IF response.origin # PyNone THEN response.origin ELSE response.referer

\* the host of a netloc: the netloc without its port
HostOf(netloc) ==
  LET colon == FirstOf(netloc, {":"}, 1)
  IN  IF colon = 0 THEN netloc ELSE SubSeq(netloc, 1, colon - 1)

\* scheme+host of the request is equal to a whitelist entry of the client,
\* or its host is a subdomain of a "*." wildcard entry
WhitelistedDomain ==
  LET client == ClientTable[CHOOSE i \in active_clients(response.api_key) : TRUE]
      entries == IF "whitelisted_domains" \in DOMAIN client.config
                 THEN client.config.whitelisted_domains ELSE <<>>
      parsed == urlparse(OriginOrReferer)
  IN  \E k \in 1..Len(entries) :
        IF StartsWith(entries[k], "*.")
        THEN EndsWith(HostOf(parsed.netloc), SubSeq(entries[k], 2, Len(entries[k])))
        ELSE parsed.scheme \o "://" \o parsed.netloc = entries[k]

\* the request comes from http://localhost or http://127.0.0.1, any port
LocalOrigin ==
  LET parsed == urlparse(OriginOrReferer)
  IN  parsed.scheme = "http" /\ HostOf(parsed.netloc) \in {"localhost", "127.0.0.1"}

\* the origins whose scheme+host has a whitelist entry or localhost as a
\* proper prefix or suffix without being whitelisted or local
LookalikeOrigins ==
  {"https://example.com.evil.com", "https://evilwildcard.com", "http://localhost.evil.com"}

\* C21: a request on a non-exempt path with the API key of an active client
\* is forwarded to the view only if the scheme+host of its Origin (else
\* Referer) header equals a whitelist entry of the client, or is a subdomain
\* of a "*." wildcard entry, or is localhost/127.0.0.1 while DEBUG is on;
\* every other such request (other domain, neither header, empty or missing
\* whitelist) gets a 403 and does not reach the view.
C21_ForwardedOnlyIfWhitelisted ==
  OfActiveClient =>
    /\ response.forwarded =>
         /\ OriginOrReferer # PyNone
         /\ WhitelistedDomain \/ (LocalOrigin /\ response.debug)
    /\ ~response.forwarded => response.status = 403

\* C21 (witness): client A whitelists https://example.com, and a request of
\* A from https://example.com.evil.com was forwarded to the view.
C21_Witness ==
  /\ OfActiveClient
  /\ response.api_key = "cb_key_A"
  /\ response.origin = "https://example.com.evil.com"
  /\ ~response.debug
  /\ ~WhitelistedDomain
  /\ response.forwarded
  /\ response.status = 200

\* for origins other than the lookalikes, a request is forwarded exactly
\* when its domain is whitelisted or local under DEBUG
C21_HoldsOnOtherOrigins ==
  (OfActiveClient /\ response.origin \notin LookalikeOrigins) =>
    /\ response.forwarded <=>
         /\ OriginOrReferer # PyNone
         /\ WhitelistedDomain \/ (LocalOrigin /\ response.debug)
    /\ ~response.forwarded => response.status = 403

\* the estimated tokens of each line of the history
HistoryLineTokens ==
  Tuple([i \in 1..Len(HistoryLines) |-> estimate_token_count(HistoryLines[i])])

\* the number of messages a backward walk over lines of these tokens takes
\* before the first one that would push the sum above the history budget
WalkLength(tokens) ==
  LET n == Len(tokens)
      reached == {k \in 0..n :
                    \A j \in 1..k : SumRange(tokens, n - j + 1, n) <= MAX_HISTORY_TOKENS}
  IN  CHOOSE k \in reached : \A j \in reached : j <= k

\* C22: for every conversation history the history block of the prompt is
\* a contiguous suffix of the history in its original order: exactly the
\* messages a backward walk takes before the first message that would push
\* the sum of the per-message estimated tokens above 1500, so the sum of
\* the included lines never exceeds 1500 and no older message follows a
\* newer one that was left out, even if it would fit; when not even the
\* most recent message fits there is no "Previous conversation:" block.
C22_HistorySuffix ==
  (ppc = "built" /\ result.status = "ok" /\ IsList(heap0, argHistory)) =>
    LET k == WalkLength(HistoryLineTokens)
    IN  /\ EndsWith(result.value, LastLines(k) \o CallTail)
        /\ (k = 0 => ~Contains(result.value, "Previous conversation:"))

\* C22 (witness): a prompt was built from a history in which the walk stops
\* at a message over the remaining budget while the message before it would
\* still fit; the block holds only the messages after the one left out.
C22_Witness ==
  /\ ppc = "built"
  /\ result.status = "ok"
  /\ IsList(heap0, argHistory)
  /\ LET tokens == HistoryLineTokens
         n == Len(tokens)
         k == WalkLength(tokens)
     IN  /\ k >= 1
         /\ n - k >= 2
         /\ SumRange(tokens, n - k + 1, n) + tokens[n - k - 1] <= MAX_HISTORY_TOKENS
         /\ EndsWith(result.value, LastLines(k) \o CallTail)

\* a prompt was built from a history whose most recent message is over the
\* budget while an older one is not, and it has no history block
C22_NothingFitsWitness ==
  /\ ppc = "built"
  /\ result.status = "ok"
  /\ IsList(heap0, argHistory)
  /\ Len(HistoryLines) >= 2
  /\ WalkLength(HistoryLineTokens) = 0
  /\ HistoryLineTokens[1] <= MAX_HISTORY_TOKENS
  /\ ~Contains(result.value, "Previous conversation:")

\* C23: truncate_text clamps at tiny budgets: when the text exceeds the
\* budget and max_chars = max_tokens * 4 is at most 3 (max_tokens <= 0), the
\* call does not raise and keeps a slice of length 0 of the text, so the
\* result is only the marker "...", for both values of preserve_ending.
C23_ClampsAtTinyBudgets ==
  (tpc # "start" /\ estimate_token_count(text) > max_tokens /\ max_tokens * 4 <= 3) =>
    truncated = "..."

\* C23 (witness): a text of more than 3 characters was truncated with
\* max_tokens = 0 and the result keeps all of it but 3 characters.
C23_Witness ==
  /\ tpc # "start"
  /\ max_tokens = 0
  /\ Len(text) > 3
  /\ Len(truncated) = Len(text)
  /\ truncated # "..."
  /\ truncated = IF preserve_ending THEN "..." \o SubSeq(text, 4, Len(text))
                 ELSE SubSeq(text, 1, Len(text) - 3) \o "..."

\* at a budget of 0 or less a text of at most 3 characters (and, below
\* -1 token, every text of the model) is cut to the marker alone
C23_HoldsForShortTexts ==
  (tpc # "start" /\ estimate_token_count(text) > max_tokens /\ max_tokens * 4 <= 3
     /\ Len(text) <= 3 - max_tokens * 4) =>
    truncated = "..."

\* the cell of element item in column col: "0" when the element has no
\* such key or holds null there, else the element's value as the CSV
\* shows it
CellOrZero(h, item, col) ==
  IF ObjGet(h, item.a, col, JNull) = JNull THEN "0" ELSE CsvCell(h, item, col)

\* the array at address l has an element after the first with a key the
\* first element lacks, and an element that lacks a key of the first
LaterKeysDiffer(h, l) ==
  LET items == h[l].items
      first == {ObjKeys(h, items[1].a)[j] : j \in 1..Len(ObjKeys(h, items[1].a))}
  IN  /\ \E k \in 2..Len(items) :
           \E j \in 1..Len(ObjKeys(h, items[k].a)) : ObjKeys(h, items[k].a)[j] \notin first
      /\ \E k \in 2..Len(items) :
           \E c \in first : ObjGet(h, items[k].a, c, Str(Unset)) = Str(Unset)

\* C24: in the CSV of a converted array the columns are the keys of
\* element 0 only, in element 0's key order: the header is those keys
\* joined by commas, every data row has one cell per header column, a key
\* that appears only in a later element yields no column and no cell, and
\* a cell whose column is missing from its element or whose value is null
\* is the literal "0".
C24_ColumnsOfFirstElement ==
  (ppc = "normalized" /\ result.status = "ok" /\ IsDict(heap0, argJsonData)) =>
    LET fields == ConvertibleFrom(heap0, argJsonData.a, "", 1)
    IN  \A i \in 1..Len(fields) :
          LET items == heap0[fields[i].list].items
              columns == ObjKeys(heap0, items[1].a)
              row(k) == Join(",", [j \in 1..Len(columns) |->
                                     CellOrZero(heap0, items[k], columns[j])])
          IN  /\ DictHas(result.csv_data, fields[i].path)
              /\ DictGet(result.csv_data, fields[i].path).csv
                   = Join(",", columns) \o "\n"
                       \o Join("", [k \in 1..Len(items) |-> row(k) \o "\n"])

\* C24 (witness): an array was converted whose later elements have a key
\* the first lacks, lack a key of the first and hold null in a column.
C24_Witness ==
  /\ ppc = "normalized"
  /\ result.status = "ok"
  /\ IsDict(heap0, argJsonData)
  /\ LET fields == ConvertibleFrom(heap0, argJsonData.a, "", 1)
     IN  /\ Len(fields) = 1
         /\ LaterKeysDiffer(heap0, fields[1].list)
         /\ DictGet(result.csv_data, fields[1].path).csv = "a,b\n1,x\n2,0\n0,0\n"

\* str(value) of the value of element item in column col, "0" for a
\* missing key or null
Stringified(h, item, col) ==
  LET value == ObjGet(h, item.a, col, JNull)
  IN  IF value = JNull THEN "0" ELSE PyStrVal(h, value)

\* a cell that is wrapped in double quotes exactly when its text has a comma
QuotedIffComma(s) == IF Contains(s, ",") THEN "\"" \o s \o "\"" ELSE s

\* the array at address l holds a nested array or object whose str() has a
\* comma
HasNestedComma(h, l) ==
  \E k \in 1..Len(h[l].items) :
    \E j \in 1..Len(h[h[l].items[k].a].items) :
      LET value == h[h[l].items[k].a].items[j].value
      IN  value.t = "ref" /\ Contains(PyStrVal(h, value), ",")

\* C25: in the CSV of a converted array a data cell is wrapped in double
\* quotes if and only if its stringified value contains a comma, whatever
\* the JSON type of the value (string, number, boolean, nested array or
\* object); a cell without a comma is not quoted, and quotes and newlines
\* inside a value are not escaped.
C25_QuotedIffComma ==
  (ppc = "normalized" /\ result.status = "ok" /\ IsDict(heap0, argJsonData)) =>
    LET fields == ConvertibleFrom(heap0, argJsonData.a, "", 1)
    IN  \A i \in 1..Len(fields) :
          LET items == heap0[fields[i].list].items
              columns == ObjKeys(heap0, items[1].a)
              row(k) == Join(",", [j \in 1..Len(columns) |->
                                     QuotedIffComma(Stringified(heap0, items[k], columns[j]))])
          IN  DictGet(result.csv_data, fields[i].path).csv
                = Join(",", columns) \o "\n"
                    \o Join("", [k \in 1..Len(items) |-> row(k) \o "\n"])

\* C25 (witness): an array was converted that holds the nested array
\* [1, 2] and a nested object with two keys, and their cells, which have
\* commas, are not quoted.
C25_Witness ==
  /\ ppc = "normalized"
  /\ result.status = "ok"
  /\ IsDict(heap0, argJsonData)
  /\ LET fields == ConvertibleFrom(heap0, argJsonData.a, "", 1)
     IN  /\ Len(fields) = 1
         /\ HasNestedComma(heap0, fields[1].list)
         /\ DictGet(result.csv_data, fields[1].path).csv
              = "s,q,n,t,l,o,e\n\"a,b\",say \"hi\"\nbye,1,True,[1, 2],{'k': 1, 'm': 'v'},[]\n"

\* the quoting rule on arrays without nested arrays or objects that have a
\* comma in their text
C25_HoldsWithoutNestedCommas ==
  (ppc = "normalized" /\ result.status = "ok" /\ IsDict(heap0, argJsonData)
     /\ \A i \in 1..Len(ConvertibleFrom(heap0, argJsonData.a, "", 1)) :
          ~HasNestedComma(heap0, ConvertibleFrom(heap0, argJsonData.a, "", 1)[i].list))
    => C25_QuotedIffComma

\* every array of heap h that starts with an object holds objects only
ObjectArraysOnly(h) ==
  \A i \in 1..Len(h) :
    (h[i].t = "list" /\ Len(h[i].items) > 0 /\ IsDict(h, h[i].items[1]))
      => \A k \in 1..Len(h[i].items) : IsDict(h, h[i].items[k])

\* C26: process_json_data_to_csv traverses object fields depth-first and
\* recurses only into nested objects: the call returns, every convertible
\* array at any object depth is converted and keyed by the dot-joined path
\* of the keys that lead to it, sections appear in traversal order, and
\* nothing else is converted: arrays inside array elements, arrays whose
\* first element is not an object, empty arrays and scalars are in the
\* rewritten object as they are in the input.
C26_ObjectsOnlyTraversal ==
  (ppc = "normalized" /\ IsDict(heap0, argJsonData)) =>
    LET fields == ConvertibleFrom(heap0, argJsonData.a, "", 1)
    IN  /\ result.status = "ok"
        /\ DictKeys(result.csv_data) = [i \in 1..Len(fields) |-> fields[i].path]
        /\ RewrittenAs(heap0, argJsonData.a, heap, result.processed_data.a)

\* C26 (witness): the array under meta.rows, two objects deep, starts with
\* an object and holds a string after it; the call raised and converted
\* nothing.
C26_Witness ==
  /\ ppc = "normalized"
  /\ IsDict(heap0, argJsonData)
  /\ LET fields == ConvertibleFrom(heap0, argJsonData.a, "", 1)
     IN  Len(fields) = 1 /\ fields[1].path = "meta.rows"
  /\ result.status = "raise"
  /\ result.error.type = "AttributeError"

\* the traversal on inputs whose arrays of objects hold objects only
C26_HoldsOnObjectArrays ==
  ObjectArraysOnly(heap0) => C26_ObjectsOnlyTraversal

\* an input was normalised that has a convertible array three keys deep,
\* an array of arrays and an array inside an element of a converted array:
\* only the fields deep.er.list and outer have sections
C26_NestedWitness ==
  /\ ppc = "normalized"
  /\ result.status = "ok"
  /\ IsDict(heap0, argJsonData)
  /\ DictKeys(result.csv_data) = <<"deep.er.list", "outer">>
  /\ Dumps(heap, result.processed_data, FALSE, 0)
       = "{\"grid\": [[{\"x\": 1}]], \"deep\": {\"er\": {\"list\": \"[See CSV data for list below]\", \"n\": 4}}, \"outer\": \"[See CSV data for outer below]\"}"
  /\ DictGet(result.csv_data, "outer").csv = "inner\n[{'z': 3}]\n"

(***************************************************************************)
(* Threads on the factory.  Two threads each construct AIProviderFactory() *)
(* for the first time and then call get_provider and generate_response.    *)
(* __new__ is not one step: a thread can be preempted between the test of  *)
(* _instance, the assignment of the new instance, the run of               *)
(* _initialize_providers and the return.  A thread is                      *)
(* [pc, seen, obj, calls, last]: seen is the _instance its test read (-1   *)
(* before the test), obj the instance __new__ returned (0 before), last    *)
(* the outcome of its last call.                                           *)
(***************************************************************************)
MaxThreadCalls == 1    \* calls of a thread after its construction

ThreadIds == {"t1", "t2"}

ThreadsInit ==
  /\ TextIdle
  /\ PromptIdle
  /\ ViewIdle
  /\ settings \in {s \in SettingsSpace :
                      /\ ConfiguredBackends(s) \in {{"claude", "dummy"}, {"claude", "openai", "dummy"}}
                      /\ s.AI_PROVIDER = "claude"
                      /\ s.ANTHROPIC_API_KEY # PyNone}
  /\ instance = 0
  /\ providers = <<>>
  /\ created = 0
  /\ initCount = 0
  /\ resets = 0
  /\ configured = {}
  /\ ret = [op |-> "threads"]
  /\ threads = [t \in ThreadIds |->
                  [pc |-> "start", seen |-> -1, obj |-> 0, calls |-> 0, last |-> "none"]]

\* what a step of a thread leaves alone besides the registry
ThreadFrame == UNCHANGED <<settings, resets, ret, textVars, promptVars, viewVars>>

\* __new__, line 18: if cls._instance is None
NewCheck(t) ==
  /\ threads[t].pc = "start"
  /\ threads' = [threads EXCEPT ![t].seen = instance,
                                ![t].pc = IF instance_is_none(instance) THEN "create"
                                          ELSE "return"]
  /\ UNCHANGED <<instance, providers, created, initCount, configured>>
  /\ ThreadFrame

\* __new__, line 19: cls._instance = super().__new__(cls)
NewCreate(t) ==
  /\ threads[t].pc = "create"
  /\ created' = created + 1
  /\ instance' = created + 1
  /\ threads' = [threads EXCEPT ![t].pc = "init"]
  /\ UNCHANGED <<providers, initCount, configured>>
  /\ ThreadFrame

\* __new__, line 20: cls._instance._initialize_providers()
NewInit(t) ==
  /\ threads[t].pc = "init"
  /\ providers' = initialize_providers(providers, settings)
  /\ initCount' = initCount + 1
  /\ configured' = ConfiguredBackends(settings)
  /\ threads' = [threads EXCEPT ![t].pc = "return"]
  /\ UNCHANGED <<instance, created>>
  /\ ThreadFrame

\* __new__, line 21: return cls._instance
NewReturn(t) ==
  /\ threads[t].pc = "return"
  /\ threads' = [threads EXCEPT ![t].obj = instance, ![t].pc = "ready"]
  /\ UNCHANGED <<instance, providers, created, initCount, configured>>
  /\ ThreadFrame

\* the thread calls get_provider on its factory
ThreadGetProvider(t) ==
  /\ threads[t].pc = "ready"
  /\ threads[t].calls < MaxThreadCalls
  /\ \E provider_name \in {PyNone, "openai"} :
       threads' = [threads EXCEPT
                     ![t].calls = @ + 1,
                     ![t].last = get_provider(providers, settings, provider_name).status]
  /\ UNCHANGED <<instance, providers, created, initCount, configured>>
  /\ ThreadFrame

\* the thread calls generate_response on its factory
ThreadGenerateResponse(t) ==
  /\ threads[t].pc = "ready"
  /\ threads[t].calls < MaxThreadCalls
  /\ \E provider_name \in {PyNone, "openai"} :
       threads' = [threads EXCEPT
                     ![t].calls = @ + 1,
                     ![t].last = factory_generate_response(providers, settings, provider_name,
                                                           ViewConversation, ViewOptions,
                                                           BackendAnswers).status]
  /\ UNCHANGED <<instance, providers, created, initCount, configured>>
  /\ ThreadFrame

TestInstance == \E t \in ThreadIds : NewCheck(t)
CreateInstance == \E t \in ThreadIds : NewCreate(t)
InitializeProviders == \E t \in ThreadIds : NewInit(t)
ReturnInstance == \E t \in ThreadIds : NewReturn(t)
CallGetProvider == \E t \in ThreadIds : ThreadGetProvider(t)
CallGenerateResponse == \E t \in ThreadIds : ThreadGenerateResponse(t)

ThreadsNext ==
  \/ TestInstance
  \/ CreateInstance
  \/ InitializeProviders
  \/ ReturnInstance
  \/ CallGetProvider
  \/ CallGenerateResponse

SpecThreads == ThreadsInit /\ [][ThreadsNext]_vars

\* the threads whose test of _instance found None and that have run the
\* step that takes them to pc, or a later one
FoundNonePast(pcs) ==
  {t \in ThreadIds : threads[t].seen = 0 /\ threads[t].pc \in pcs}

\* C27: registry initialization is not guarded against concurrent first
\* use: the test of _instance and the creation of the instance are separate
\* steps, so every thread whose test found None creates an instance and
\* runs the provider initialization, whatever another thread did in
\* between (two threads that interleave give two instances and two runs);
\* after the initialization, get_provider and generate_response calls only
\* read the registry.
C27_UnguardedFirstUse ==
  [][/\ created' = Cardinality(FoundNonePast({"init", "return", "ready"})')
     /\ initCount' = Cardinality(FoundNonePast({"return", "ready"})')
     /\ (\E t \in ThreadIds : threads'[t].calls # threads[t].calls)
          => UNCHANGED <<instance, providers, created, initCount>>]_vars

\* C27 (witness): both threads found _instance None, two instances were
\* created and the provider initialization ran twice.
C27_Witness ==
  /\ DOMAIN threads = ThreadIds
  /\ \A t \in ThreadIds : threads[t].seen = 0 /\ threads[t].pc = "ready"
  /\ created = 2
  /\ initCount = 2

\* a thread got the instance another thread had created but not yet
\* initialized, and its call found the configured default provider missing
C27_EarlyReadWitness ==
  /\ DOMAIN threads = ThreadIds
  /\ \E t \in ThreadIds :
       /\ threads[t].seen # 0
       /\ threads[t].calls = 1
       /\ threads[t].last = "raise"
  /\ \E t \in ThreadIds : threads[t].pc = "init"
  /\ initCount = 0


\* ======================================================================
\* File views (chat/views/files.py): uploads and deletes on a session.
\* The views run in autocommit mode, so each ORM statement is a database
\* transaction of its own and the statements of concurrent requests
\* interleave.
\* ======================================================================

MaxUploads == 2
MaxDeletes == 1

\* the ids of the sessions the file requests are about
FileSessions == {1, 2}

\* session.uploaded_files.filter(is_active=True): the ids of its rows
active_files(files, session) ==
  {i \in DOMAIN files : files[i].session = session /\ files[i].is_active}

\* .first() under Meta.ordering = ["-uploaded_at"]: the newest row, 0: None
first_of(ids) ==
  IF ids = {} THEN 0 ELSE CHOOSE i \in ids : \A j \in ids : j <= i

\* .update(is_active=False) on the active rows of the session
deactivate_all(files, session) ==
  Tuple([i \in DOMAIN files |->
           IF files[i].session = session /\ files[i].is_active
             THEN [files[i] EXCEPT !.is_active = FALSE]
             ELSE files[i]])

\* the requests of the given operation made so far
RequestsOf(op) == {r \in DOMAIN inflight : inflight[r].op = op}

\* no request is between two of its statements
NoneInFlight == \A r \in DOMAIN inflight : inflight[r].pc = "done"

FilesInit ==
  /\ TextIdle
  /\ RegIdle
  /\ PromptIdle
  /\ dbSessions = <<>>
  /\ dbMessages = <<>>
  /\ response = [op |-> "start"]
  /\ dbFiles = <<>>
  /\ inflight = <<>>

\* FileUploadView.post up to the end of the file processing: a processing
\* error is answered with 500 and leaves the table alone
UploadRequest ==
  /\ Cardinality(RequestsOf("upload")) < MaxUploads
  /\ \E session \in FileSessions, processed \in BOOLEAN :
       inflight' = Append(inflight,
                     [op |-> "upload", session |-> session,
                      pc |-> IF processed THEN "deactivate" ELSE "done",
                      status |-> IF processed THEN 0 ELSE 500,
                      target |-> 0, alone |-> NoneInFlight])
  /\ UNCHANGED <<dbSessions, dbMessages, response, dbFiles,
                 textVars, regVars, promptVars>>

\* session.uploaded_files.filter(is_active=True).update(is_active=False)
UploadDeactivate(r) ==
  /\ inflight[r].op = "upload"
  /\ inflight[r].pc = "deactivate"
  /\ dbFiles' = deactivate_all(dbFiles, inflight[r].session)
  /\ inflight' = [inflight EXCEPT ![r].pc = "create"]
  /\ UNCHANGED <<dbSessions, dbMessages, response,
                 textVars, regVars, promptVars>>

\* FileUpload.objects.create(session=session, ..., is_active=True)
UploadCreate(r) ==
  /\ inflight[r].op = "upload"
  /\ inflight[r].pc = "create"
  /\ dbFiles' = Append(dbFiles, [session |-> inflight[r].session,
                                 is_active |-> TRUE, deleted |-> FALSE])
  /\ inflight' = [inflight EXCEPT ![r].pc = "done", ![r].status = 200,
                                  ![r].target = Len(dbFiles) + 1]
  /\ UNCHANGED <<dbSessions, dbMessages, response,
                 textVars, regVars, promptVars>>

\* FileDeleteView.delete up to the read of the active file: 404 when the
\* session has none
DeleteRequest ==
  /\ Cardinality(RequestsOf("delete")) < MaxDeletes
  /\ \E session \in FileSessions :
       LET active_file == first_of(active_files(dbFiles, session)) IN
       inflight' = Append(inflight,
                     [op |-> "delete", session |-> session,
                      pc |-> IF active_file = 0 THEN "done" ELSE "save",
                      status |-> IF active_file = 0 THEN 404 ELSE 0,
                      target |-> active_file, alone |-> NoneInFlight])
  /\ UNCHANGED <<dbSessions, dbMessages, response, dbFiles,
                 textVars, regVars, promptVars>>

\* active_file.is_active = False; active_file.save()
DeleteSave(r) ==
  /\ inflight[r].op = "delete"
  /\ inflight[r].pc = "save"
  /\ dbFiles' = [dbFiles EXCEPT ![inflight[r].target].is_active = FALSE,
                                ![inflight[r].target].deleted = TRUE]
  /\ inflight' = [inflight EXCEPT ![r].pc = "done", ![r].status = 200]
  /\ UNCHANGED <<dbSessions, dbMessages, response,
                 textVars, regVars, promptVars>>

\* ChatMessageView.post: the file whose data goes into the prompt
MessageViewReads ==
  /\ \E session \in FileSessions :
       LET active == active_files(dbFiles, session) IN
       /\ response' = [op |-> "feed", session |-> session,
                       file |-> first_of(active), active |-> active]
       /\ response' # response
  /\ UNCHANGED <<dbSessions, dbMessages, dbFiles, inflight,
                 textVars, regVars, promptVars>>

Deactivate == \E r \in DOMAIN inflight : UploadDeactivate(r)
CreateRecord == \E r \in DOMAIN inflight : UploadCreate(r)
SaveInactive == \E r \in DOMAIN inflight : DeleteSave(r)

FilesNext ==
  \/ UploadRequest
  \/ Deactivate
  \/ CreateRecord
  \/ DeleteRequest
  \/ SaveInactive
  \/ MessageViewReads

SpecFiles == FilesInit /\ [][FilesNext]_vars

\* the rows of a session, active or not
FilesOf(session) == {i \in DOMAIN dbFiles : dbFiles[i].session = session}

\* a session has at most one active file, which is its newest upload and
\* was not deleted
OneActiveFile(session) ==
  LET active == active_files(dbFiles, session) IN
  /\ Cardinality(active) <= 1
  /\ \A i \in active :
       /\ ~dbFiles[i].deleted
       /\ i = first_of(FilesOf(session))

\* what the message view read is the one active file of the session, or
\* nothing when it had none
FedTheOnlyActive ==
  response.op = "feed" =>
    /\ response.active \subseteq {response.file}
    /\ response.file # 0 => response.file \in response.active

\* no request started while another one was between its statements
NoOverlap == \A r \in DOMAIN inflight : inflight[r].alone

\* C28: after any interleaving of upload and delete requests, every session
\* has at most one active file, it is the most recently uploaded file and
\* it was not deleted, and it is the only file the message view feeds into
\* the prompt.
C28_AtMostOneActiveFile ==
  /\ \A session \in FileSessions : OneActiveFile(session)
  /\ FedTheOnlyActive

\* C28 (witness): two uploads on one session both ran their deactivation
\* before either created its record, and the session has two active files,
\* which the message view saw.
C28_Witness ==
  /\ \E session \in FileSessions :
       /\ Cardinality(active_files(dbFiles, session)) = 2
       /\ response.op = "feed"
       /\ response.session = session
       /\ Cardinality(response.active) = 2
  /\ NoneInFlight

\* requests that do not overlap keep at most one active file: the newest
\* upload, not deleted, and the one the message view feeds
C28_HoldsWithoutOverlap ==
  NoOverlap =>
    /\ \A session \in FileSessions : OneActiveFile(session)
    /\ FedTheOnlyActive

\* requests ran one after another, the newest upload was deleted, and the
\* session has no active file although an older upload was never deleted
C28_SequentialWitness ==
  /\ NoOverlap
  /\ NoneInFlight
  /\ \E session \in FileSessions :
       /\ Cardinality(FilesOf(session)) = 2
       /\ active_files(dbFiles, session) = {}
       /\ \E i \in FilesOf(session) : ~dbFiles[i].deleted


\* the step is a send that reached the prompt build and the provider call
\* on an existing session of the authenticated client
SendOnExistingSession ==
  /\ response'.op = "send"
  /\ response'.client # PyNone
  /\ ReachesProvider(response'.client, response'.session_id, response'.message)

\* the user message a send stores
UserRow(r) ==
  [session |-> r.session_id[1], role |-> "user", content |-> r.message]

\* the assistant message a successful send stores
AssistantRow(r) ==
  [session |-> r.session_id[1], role |-> "assistant", content |-> r.body.response]

\* C29: a send on an existing session appends exactly one user message and
\* then exactly one assistant message when the provider call succeeds; when
\* the provider is not resolved or the backend call fails, the response is
\* an error response, no assistant message is stored and the user message
\* already stored stays.
C29_UserMessageNotRolledBack ==
  [][SendOnExistingSession =>
       IF response'.status = 200
         THEN dbMessages' = dbMessages \o <<UserRow(response'), AssistantRow(response')>>
         ELSE /\ response'.status \in {400, 401, 429, 500}
              /\ "error" \in DOMAIN response'.body
              /\ dbMessages' = Append(dbMessages, UserRow(response'))]_vars

\* C29 (witness): a send whose backend call failed was answered with an
\* error, and the last message of the session is its user message, with no
\* reply.
C29_Witness ==
  /\ response.op = "send"
  /\ response.status = 500
  /\ "error" \in DOMAIN response.body
  /\ Len(dbMessages) >= 1
  /\ dbMessages[Len(dbMessages)] = UserRow(response)
  /\ \A i \in DOMAIN dbMessages : dbMessages[i].role = "user"

\* a send that succeeded left the user message followed by the reply
C29_SuccessWitness ==
  /\ response.op = "send"
  /\ response.status = 200
  /\ dbMessages = <<UserRow(response), AssistantRow(response)>>

\* a send whose provider was not resolved was answered with 400 and left
\* the user message
C29_UnresolvedWitness ==
  /\ response.op = "send"
  /\ response.status = 400
  /\ response.session_id # <<>>
  /\ Len(dbMessages) >= 1
  /\ dbMessages[Len(dbMessages)] = [session |-> response.session_id[1],
                                    role |-> "user", content |-> "Secret message"]


\* ======================================================================
\* The registry under resets of the singleton: the class state of
\* AIProviderFactory is _instance and the class-level dict _providers, and
\* a reset may clear both or the instance only.
\* ======================================================================

\* AIProviderFactory._instance = None, with _providers left as it is
ResetInstanceOnly ==
  /\ resets < MaxResets
  /\ instance # 0
  /\ instance' = 0
  /\ resets' = resets + 1
  /\ ret' = [op |-> "reset_instance"]
  /\ UNCHANGED <<settings, providers, created, initCount, configured, threads,
                 textVars, promptVars, viewVars>>

ResetsNext ==
  \/ Construct
  \/ GetAvailableProviders
  \/ IsProviderAvailable
  \/ OverrideSettings
  \/ HarnessReset
  \/ ResetInstanceOnly

SpecResets == RegInit /\ [][ResetsNext]_vars

\* the registered backends that the most recent initialization did not
\* find configured
StaleBackends == KeySet(providers) \ configured

\* C30: after any sequence of initializations and resets, also resets that
\* clear only the singleton instance, the registered providers of an
\* initialized registry are exactly the backends that were configured at
\* the most recent initialization.
C30_RegisteredEqualsLastConfigured ==
  instance # 0 =>
     /\ StaleBackends = {}
     /\ configured \subseteq KeySet(providers)

\* C30 (witness): the instance was cleared and the registry initialized a
\* second time under settings that no longer enable a backend, and that
\* backend is still registered and listed.
C30_Witness ==
  /\ instance # 0
  /\ initCount = 2
  /\ resets = 1
  /\ StaleBackends # {}
  /\ ret.op = "get_available_providers"
  /\ \E i \in 1..Len(ret.value) : ret.value[i] \in StaleBackends

\* an initialization adds the configured backends to the registered ones
\* and removes none; started from an empty dict it registers exactly the
\* configured backends
C30_InitializationOnlyAdds ==
  [][initCount' # initCount =>
       KeySet(providers') = KeySet(providers) \cup configured']_vars

====
